---- MODULE Spec2Model ----
(***************************************************************************)
(* Highlight detection and clip scheduling engine of stream-clipper-skill. *)
(*                                                                         *)
(*   scripts/analyze_danmaku.py   DanmakuAnalyzer  (density windower)      *)
(*   scripts/analyze_semantic.py  SemanticAnalyzer (topic segmenter)       *)
(*   scripts/smart_clipper.py     SmartClipper     (fusion, reconciler)    *)
(*   scripts/clip_and_burn.py     ClipAndBurn      (track allocator)       *)
(*                                                                         *)
(* Times are integers (one unit = one second).  A Python float quotient    *)
(* is kept as an exact fraction [num, den].  Characters that are not       *)
(* ASCII are written as ASCII tokens (uXXXX, the code point), a text is a sequence  *)
(* of such one-character tokens.                                           *)
(***************************************************************************)
EXTENDS Integers, Sequences, FiniteSets, TLC

VARIABLES
    window_size,      \* DanmakuAnalyzer.window_size
    danmaku_list,     \* the argument of calculate_density
    density_result,   \* what calculate_density returned
    xml,              \* _xml_to_ass: root.findall("d"), in document order
    xml_pos,          \* _xml_to_ass: the element the for loop is at
    tracks,           \* _xml_to_ass: tracks[i], the end time of track i
    events,           \* _xml_to_ass: the Dialogue lines built so far
    ass_file,         \* _xml_to_ass: the lines written to ass_path
    excite_text,      \* the argument of calculate_excitement
    excite_result,    \* what calculate_excitement counted and returned
    excite_prev,      \* ... and what the call before it did
    srt_file,         \* the file at subtitle_path
    subtitles,        \* SemanticAnalyzer.subtitles
    semantic_result,  \* what SemanticAnalyzer.analyze returned (or raised)
    danmaku_file,     \* the file at danmaku_path
    danmaku_parsed,   \* analyze: danmaku_list, what parse_danmaku_xml returned
    danmaku_analysis, \* what DanmakuAnalyzer.analyze returned (or raised)
    template,         \* SmartClipper: the preset given to __init__, or None
    top_n,            \* generate_recommendations: top_n
    danmaku_json,     \* the file at danmaku_result_path
    semantic_json,    \* the file at semantic_result_path
    recommendations,  \* what generate_recommendations returned (or raised)
    clip_prev         \* ... and what the run before this one returned

densityVars == <<window_size, danmaku_list, density_result>>

trackVars == <<xml, xml_pos, tracks, events, ass_file>>

exciteVars == <<excite_text, excite_result, excite_prev>>

semanticVars == <<srt_file, subtitles, semantic_result>>

danmakuVars == <<danmaku_file, danmaku_parsed, danmaku_analysis>>

clipVars == <<template, top_n, danmaku_json, semantic_json, recommendations, clip_prev>>

vars == <<window_size, danmaku_list, density_result,
          xml, xml_pos, tracks, events, ass_file,
          excite_text, excite_result, excite_prev,
          srt_file, subtitles, semantic_result,
          danmaku_file, danmaku_parsed, danmaku_analysis,
          template, top_n, danmaku_json, semantic_json, recommendations, clip_prev>>

(***************************************************************************)
(* Bounds of the model.                                                    *)
(***************************************************************************)
MaxWindow == 3        \* window sizes 2..MaxWindow
MaxStreamLen == 3     \* exhaustively enumerated comment streams: length
MaxTime == 5          \* ... and timestamps 0..MaxTime
MaxHigh == 2          \* profile streams: windows holding 3 comments
MaxMid == 10          \* profile streams: windows holding 2 comments
LowPad == 32          \* profile streams: windows holding 1 comment
MaxBurst == 15        \* comment files: leading comments at one timestamp
MaxTail == 2          \* comment files: freely chosen elements after them
MaxTextLen == 5       \* texts given to calculate_excitement: length
MaxNameLen == 80      \* presets: characters of the name
MaxSrtRun == 11       \* subtitle files: blocks of a run of segments
MaxEntries == 3       \* subtitle files: number of blocks
MaxElems == 3         \* comment files given to analyze: number of elements
MaxPeaks == 2         \* analysis results: number of peak moments
MaxHighlights == 2    \* analysis results: number of highlights
MaxPeakRun == 6       \* analysis results: peaks in consecutive windows
MaxHighlightRun == 6  \* analysis results: highlights lying across them
MaxPipeBurst == 4     \* engine runs: leading comments at one timestamp
MaxPipeTail == 2      \* engine runs: comments after them
MaxPipeBlocks == 2    \* engine runs: number of subtitle blocks

(***************************************************************************)
(* Generic helpers.                                                        *)
(***************************************************************************)
Range(s) == {s[i] : i \in DOMAIN s}

Min(a, b) == IF a <= b THEN a ELSE b

Max(a, b) == IF a >= b THEN a ELSE b

SeqsUpTo(S, n) == UNION {[1..k -> S] : k \in 0..n}

\* sorted(<set of numbers>)
RECURSIVE SortedKeys(_)
SortedKeys(S) ==
    IF S = {} THEN <<>>
    ELSE LET m == CHOOSE x \in S : \A y \in S : x <= y
         IN  <<m>> \o SortedKeys(S \ {m})

NoResult == [status |-> "none"]

(***************************************************************************)
(* DanmakuAnalyzer.calculate_density                                       *)
(***************************************************************************)
Users == {"u1", "u2"}

PeakLimit == 10       \* peak_windows[:10]

\* int(d["time"] // self.window_size) * self.window_size
WindowStartCeil(t, W) == ((t + W - 1) \div W) * W
WindowStart(t, W) == (t \div W) * W

\* the comments accumulated under one key of the defaultdict
WindowMembersOpen(list, start, W) ==
    SelectSeq(list, LAMBDA d : WindowStart(d.time, W) = start /\ d.time > start)
WindowMembers(list, start, W) ==
    SelectSeq(list, LAMBDA d : WindowStart(d.time, W) = start)

\* one element of window_list
MakeWindow(list, start, W) ==
    LET members == WindowMembers(list, start, W)
    IN  [start        |-> start,
         end          |-> start + W,
         count        |-> Len(members),
         unique_users |-> Cardinality({members[i].user : i \in DOMAIN members}),
         texts        |-> [i \in DOMAIN members |-> members[i].text]]

\* for start in sorted(windows.keys()): window_list.append(...)
WindowKeysDense(list, W) ==
    LET last == CHOOSE m \in {list[i].time : i \in DOMAIN list} :
                    \A i \in DOMAIN list : list[i].time <= m
    IN  {k * W : k \in 0..(last \div W)}
WindowKeys(list, W) == {WindowStart(list[i].time, W) : i \in DOMAIN list}

WindowList(list, W) ==
    LET keys == SortedKeys(WindowKeys(list, W))
    IN  [k \in DOMAIN keys |-> MakeWindow(list, keys[k], W)]

RECURSIVE SumCounts(_)
SumCounts(ws) == IF ws = <<>> THEN 0 ELSE Head(ws).count + SumCounts(Tail(ws))

\* sum(w["count"] for w in window_list) / len(window_list) if window_list else 0
AvgDensity(window_list) ==
    IF window_list # <<>>
    THEN [num |-> SumCounts(window_list), den |-> Len(window_list)]
    ELSE [num |-> 0, den |-> 1]

\* w["count"] > avg_density * 1.5
IsPeak(w, avg) == 2 * w.count * avg.den > 3 * avg.num

\* list.sort(key=count, reverse=True): stable, descending
RECURSIVE SortByCountAsc(_)
SortByCountAsc(ws) ==
    IF ws = <<>> THEN <<>>
    ELSE LET i == CHOOSE i \in DOMAIN ws :
                    /\ \A j \in DOMAIN ws : ws[j].count >= ws[i].count
                    /\ \A j \in 1..(i - 1) : ws[j].count > ws[i].count
         IN  <<ws[i]>> \o SortByCountAsc(SubSeq(ws, 1, i - 1) \o SubSeq(ws, i + 1, Len(ws)))
RECURSIVE SortByCountDesc(_)
SortByCountDesc(ws) ==
    IF ws = <<>> THEN <<>>
    ELSE LET i == CHOOSE i \in DOMAIN ws :
                    /\ \A j \in DOMAIN ws : ws[j].count <= ws[i].count
                    /\ \A j \in 1..(i - 1) : ws[j].count < ws[i].count
         IN  <<ws[i]>> \o SortByCountDesc(SubSeq(ws, 1, i - 1) \o SubSeq(ws, i + 1, Len(ws)))

\* peak_windows = [w for w in window_list if ...]; sort; [:10]
PeakWindows(window_list, avg) ==
    LET peaks == SortByCountDesc(SelectSeq(window_list, LAMBDA w : IsPeak(w, avg)))
    IN  SubSeq(peaks, 1, Min(PeakLimit, Len(peaks)))

CalculateDensity(list, W) ==
    IF list = <<>>
    THEN [status |-> "done", windows |-> <<>>,
          avg_density |-> [num |-> 0, den |-> 1], peak_windows |-> <<>>]
    ELSE LET window_list == WindowList(list, W)
             avg == AvgDensity(window_list)
         IN  [status |-> "done", windows |-> window_list,
              avg_density |-> avg, peak_windows |-> PeakWindows(window_list, avg)]

(***************************************************************************)
(* Inputs of calculate_density: every stream of at most MaxStreamLen       *)
(* comments (in any order), and profile streams of n1 windows holding one  *)
(* comment, then n2 windows holding two, then n3 windows holding three.    *)
(***************************************************************************)
Danmaku(t, u) == [time |-> t, text |-> <<"a">>, mode |-> 1, user |-> u]

SmallStreams ==
    SeqsUpTo({Danmaku(t, u) : t \in 0..MaxTime, u \in Users}, MaxStreamLen)

\* the comments of window number k (from 0) of a profile stream, W = 2
ProfileCount(k, n1, n2) == IF k < n1 THEN 1 ELSE IF k < n1 + n2 THEN 2 ELSE 3

RECURSIVE ProfileStream(_, _, _, _)
ProfileStream(k, n1, n2, n3) ==
    IF k >= n1 + n2 + n3 THEN <<>>
    ELSE LET c == ProfileCount(k, n1, n2)
         IN  [i \in 1..c |-> Danmaku(2 * k + (i % 2), IF i = 1 THEN "u1" ELSE "u2")]
             \o ProfileStream(k + 1, n1, n2, n3)

ProfileStreams ==
    {ProfileStream(0, LowPad, n2, n3) : n2 \in 0..MaxMid, n3 \in 0..MaxHigh}

IdleDensity ==
    /\ window_size = 2
    /\ danmaku_list = <<>>
    /\ density_result = NoResult

StartDensity ==
    /\ \/ /\ window_size \in 2..MaxWindow
          /\ danmaku_list \in SmallStreams
       \/ /\ window_size = 2
          /\ danmaku_list \in ProfileStreams
    /\ density_result = NoResult

CalcDensity ==
    /\ density_result = NoResult
    /\ density_result' = CalculateDensity(danmaku_list, window_size)
    /\ UNCHANGED <<window_size, danmaku_list>>
    /\ UNCHANGED <<trackVars, exciteVars, semanticVars, danmakuVars, clipVars>>

(***************************************************************************)
(* ClipAndBurn._xml_to_ass and _find_available_track                       *)
(***************************************************************************)
NumTracks == 15       \* tracks = [0] * 15

Duration == 8         \* duration = 8.0

TrackTimes == {0, 4, 8}

\* for i, end_time in enumerate(tracks): if end_time <= current_time
FreeTracksStrict(tr, current_time) == {i \in DOMAIN tr : tr[i] < current_time}
FreeTracks(tr, current_time) == {i \in DOMAIN tr : tr[i] <= current_time}

\* the values _find_available_track can return: the first free track, and
\* random.randint(0, len(tracks) - 1) when no track is free
FindAvailableTrackAny(tr, current_time) == DOMAIN tr
FindAvailableTrackLast(tr, current_time) ==
    LET free == FreeTracks(tr, current_time)
    IN  IF free # {}
        THEN {CHOOSE i \in free : \A j \in free : i >= j}
        ELSE DOMAIN tr
FindAvailableTrack(tr, current_time) ==
    LET free == FreeTracks(tr, current_time)
    IN  IF free # {}
        THEN {CHOOSE i \in free : \A j \in free : i <= j}
        ELSE DOMAIN tr

\* a <d> element: the number of fields of p, p[0], p[1] and d.text
Elem(t, mode, nfields, text) ==
    [time |-> t, mode |-> mode, nfields |-> nfields, text |-> text]

Scroll(t) == Elem(t, 1, 8, <<"a">>)

\* the elements a comment file is made of: a scrolling comment at each time,
\* a bottom, a top and a reverse comment, one without text, one with a short p
TailElems ==
    {Scroll(t) : t \in TrackTimes}
        \cup {Elem(0, 4, 8, <<"a">>), Elem(0, 5, 8, <<"a">>), Elem(0, 6, 8, <<"a">>),
              Elem(0, 1, 8, <<>>), Elem(0, 1, 2, <<"a">>)}

\* extract_danmaku_segment(danmaku_path, start, end, ...): the elements with
\* at least 8 fields and start <= time <= end, in document order, their time
\* moved by start
ExtractDanmakuSegment(elems, start, end) ==
    LET inside == SelectSeq(elems, LAMBDA d : d.nfields >= 8 /\ start <= d.time /\ d.time <= end)
    IN  [i \in DOMAIN inside |-> [inside[i] EXCEPT !.time = inside[i].time - start]]

\* the clip taken from the recording: it starts at ClipStart and lasts as long
\* as the latest time of TrackTimes
ClipStart == 2

ClipEnd == ClipStart + 8

\* recorded comment files: k scrolling comments at one time of the clip (none,
\* a few, or about as many as there are lanes), then a tail of freely chosen
\* elements, among them a comment before the clip and one after it (the file
\* is in document order, which need not be time order); after a long run the
\* tail has at most two elements
RecordedTail ==
    {[d EXCEPT !.time = d.time + ClipStart] : d \in TailElems}
        \cup {Scroll(ClipStart - 1), Scroll(ClipEnd + 1)}

RecordedFiles ==
    {[i \in 1..k |-> Scroll(t + ClipStart)] \o tail :
        k \in {0, 1, 2}, t \in TrackTimes, tail \in SeqsUpTo(RecordedTail, MaxTail)}
    \cup
    {[i \in 1..k |-> Scroll(t + ClipStart)] \o tail :
        k \in {MaxBurst - 1, MaxBurst}, t \in TrackTimes,
        tail \in SeqsUpTo(RecordedTail, Min(MaxTail, 2))}

\* the files _xml_to_ass is given: what extract_danmaku_segment wrote
XmlFiles == {ExtractDanmakuSegment(f, ClipStart, ClipEnd) : f \in RecordedFiles}

IdleTrack ==
    /\ xml = <<>>
    /\ xml_pos = 1
    /\ tracks = [i \in 0..(NumTracks - 1) |-> 0]
    /\ events = <<>>
    /\ ass_file = NoResult

StartTrack ==
    /\ xml \in XmlFiles
    /\ xml_pos = 1
    /\ tracks = [i \in 0..(NumTracks - 1) |-> 0]
    /\ events = <<>>
    /\ ass_file = NoResult

\* one iteration of "for d in root.findall('d')"
XmlToAssStep ==
    /\ ass_file = NoResult
    /\ xml_pos <= Len(xml)
    /\ xml_pos' = xml_pos + 1
    /\ LET d == xml[xml_pos]
           time_sec == d.time
       IN  IF d.nfields >= 8 /\ d.text # <<>>
           THEN IF d.mode = 1
                THEN \E track_idx \in FindAvailableTrack(tracks, time_sec) :
                        /\ tracks' = [tracks EXCEPT ![track_idx] = time_sec + Duration]
                        /\ events' = Append(events,
                              [kind |-> "scroll", start |-> time_sec,
                               end |-> time_sec + Duration,
                               track |-> track_idx, y_pos |-> 50 + track_idx * 50,
                               free |-> FreeTracks(tracks, time_sec) # {}])
                ELSE IF d.mode = 5
                THEN /\ events' = Append(events,
                              [kind |-> "top", start |-> time_sec,
                               end |-> time_sec + Duration, y_pos |-> 50])
                     /\ UNCHANGED tracks
                ELSE IF d.mode = 4
                THEN /\ events' = Append(events,
                              [kind |-> "bottom", start |-> time_sec,
                               end |-> time_sec + Duration, y_pos |-> 1080 - 100])
                     /\ UNCHANGED tracks
                ELSE UNCHANGED <<tracks, events>>
           ELSE UNCHANGED <<tracks, events>>
    /\ UNCHANGED <<xml, ass_file>>
    /\ UNCHANGED <<densityVars, exciteVars, semanticVars, danmakuVars, clipVars>>

\* with open(ass_path, "w") as f: f.write(...)
WriteAss ==
    /\ ass_file = NoResult
    /\ xml_pos > Len(xml)
    /\ ass_file' = [status |-> "done", events |-> events]
    /\ UNCHANGED <<xml, xml_pos, tracks, events>>
    /\ UNCHANGED <<densityVars, exciteVars, semanticVars, danmakuVars, clipVars>>

(***************************************************************************)
(* Texts.  A text is a sequence of characters; an ASCII character is       *)
(* itself, any other character is "u" and its code point:                  *)
(*   u54C8 ha    u7B11 xiao  u6B7B si    u795E shen  u8349 cao             *)
(*   u7136 ran   u540E hou   uFF1F full-width ?     uFF01 full-width !     *)
(***************************************************************************)
\* kw in text
IsSubstr(kw, text) ==
    \E i \in 0..(Len(text) - Len(kw)) : SubSeq(text, i + 1, i + Len(kw)) = kw

LowerMap ==
    [c \in {"A", "B", "C", "D", "E", "F", "G", "H", "I", "J", "K", "L", "M",
            "N", "O", "P", "Q", "R", "S", "T", "U", "V", "W", "X", "Y", "Z"} |->
        CASE c = "A" -> "a" [] c = "B" -> "b" [] c = "C" -> "c" [] c = "D" -> "d"
          [] c = "E" -> "e" [] c = "F" -> "f" [] c = "G" -> "g" [] c = "H" -> "h"
          [] c = "I" -> "i" [] c = "J" -> "j" [] c = "K" -> "k" [] c = "L" -> "l"
          [] c = "M" -> "m" [] c = "N" -> "n" [] c = "O" -> "o" [] c = "P" -> "p"
          [] c = "Q" -> "q" [] c = "R" -> "r" [] c = "S" -> "s" [] c = "T" -> "t"
          [] c = "U" -> "u" [] c = "V" -> "v" [] c = "W" -> "w" [] c = "X" -> "x"
          [] c = "Y" -> "y" [] c = "Z" -> "z"]

\* text.lower()
Lower(text) ==
    [i \in DOMAIN text |-> IF text[i] \in DOMAIN LowerMap THEN LowerMap[text[i]] ELSE text[i]]

\* " ".join(texts)
RECURSIVE JoinSpace(_)
JoinSpace(texts) ==
    IF texts = <<>> THEN <<>>
    ELSE IF Len(texts) = 1 THEN texts[1]
    ELSE texts[1] \o <<" ">> \o JoinSpace(Tail(texts))

(***************************************************************************)
(* SemanticAnalyzer: the keyword tables                                    *)
(***************************************************************************)
EMOTION_KEYWORDS ==
    [excited |->
        {<<"u54C8", "u54C8">>, <<"u7B11", "u6B7B">>, <<"u5367", "u69FD">>,
         <<"u725B", "u903C">>, <<"u592A", "u5F3A", "u4E86">>, <<"u795E">>,
         <<"u540D", "u573A", "u9762">>, <<"u7ECF", "u5178">>,
         <<"u9707", "u64BC">>, <<"u60CA", "u8BB6">>},
     funny |->
        {<<"u54C8", "u54C8">>, <<"h", "h", "h">>, <<"u7B11">>, <<"u8349">>,
         <<"2", "3", "3">>, <<" ", "f", "u", "n", "n", "y">>,
         <<" ", "h", "i", "l", "a", "r", "i", "o", "u", "s">>},
     shocked |->
        {<<"u4EC0", "u4E48">>, <<"u4E0D", "u53EF", "u80FD">>,
         <<"u771F", "u7684", "u5047", "u7684">>, <<"u60CA">>, <<"u5413">>,
         <<"?", "?", "?">>, <<"uFF1F">>},
     angry |->
        {<<"u6C14">>, <<"u6012">>, <<"u8BA8", "u538C">>, <<"u70E6">>,
         <<"u6EDA">>, <<"u53EF", "u6076">>},
     sad |->
        {<<"u54ED">>, <<"u6CEA">>, <<"u96BE", "u53D7">>, <<"u5FC3", "u75BC">>,
         <<" ", "s", "a", "d">>, <<"u6CEA", "u76EE">>}]

TOPIC_TRANSITIONS ==
    {<<"u63A5", "u4E0B", "u6765">>, <<"u7136", "u540E">>, <<"u90A3", "u4E48">>,
     <<"u597D", "u4E86">>, <<"u63A5", "u4E0B", "u6765", "u6211", "u4EEC">>,
     <<"u73B0", "u5728">>, <<"n", "e", "x", "t">>, <<"s", "o">>,
     <<"a", "l", "r", "i", "g", "h", "t">>,
     <<"o", "k", "a", "y", " ", "t", "h", "e", "n">>,
     <<"m", "o", "v", "i", "n", "g", " ", "o", "n">>}

(***************************************************************************)
(* SemanticAnalyzer.calculate_excitement                                   *)
(***************************************************************************)
\* sum(1 for kw in keywords if kw in text_lower), for one emotion
EmotionCount(emotion, text_lower) ==
    Cardinality({kw \in EMOTION_KEYWORDS[emotion] : IsSubstr(kw, text_lower)})

\* total_emotion_words = sum(emotion_counts.values())
EmotionHits(text_lower) ==
    EmotionCount("excited", text_lower) + EmotionCount("funny", text_lower)
        + EmotionCount("shocked", text_lower) + EmotionCount("angry", text_lower)
        + EmotionCount("sad", text_lower)

ExcitementOfShifted(total_emotion_words) ==
    IF total_emotion_words >= 5 THEN 5
    ELSE IF total_emotion_words >= 4 THEN 4
    ELSE IF total_emotion_words >= 2 THEN 3
    ELSE IF total_emotion_words >= 1 THEN 2
    ELSE 1
ExcitementOf(total_emotion_words) ==
    IF total_emotion_words >= 5 THEN 5
    ELSE IF total_emotion_words >= 3 THEN 4
    ELSE IF total_emotion_words >= 2 THEN 3
    ELSE IF total_emotion_words >= 1 THEN 2
    ELSE 1

CalculateExcitement(text) == ExcitementOf(EmotionHits(Lower(text)))

\* the characters the texts given to calculate_excitement are made of
ExciteChars == {"u7B11", "u6B7B", "u8349", "u795E", "uFF1F", "H"}

IdleExcite ==
    /\ excite_text = <<>>
    /\ excite_result = NoResult
    /\ excite_prev = NoResult

\* a call of calculate_excitement; the text is the one of the call before
\* with a character added at its end or with its first character removed
CalcExcitement ==
    /\ \E text \in {excite_text}
                     \cup {Append(excite_text, c) : c \in
                              IF Len(excite_text) < MaxTextLen THEN ExciteChars ELSE {}}
                     \cup (IF excite_text # <<>> THEN {Tail(excite_text)} ELSE {}) :
          /\ excite_text' = text
          /\ excite_result' = [status |-> "done",
                               hits   |-> EmotionHits(Lower(text)),
                               score  |-> CalculateExcitement(text)]
    /\ excite_prev' = excite_result
    /\ UNCHANGED <<densityVars, trackVars, semanticVars, danmakuVars, clipVars>>

(***************************************************************************)
(* SemanticAnalyzer.detect_topic_changes, extract_key_quotes, analyze      *)
(***************************************************************************)
GapThreshold == 2     \* time_gap > 2.0

HighlightLimit == 10  \* highlights[:10]

\* the indices (from 0) appended to change_points, sorted(set(...))
DetectTopicChangesFromGap(entries) ==
    SortedKeys({0} \cup
        {i \in 1..(Len(entries) - 1) :
            \/ \E marker \in TOPIC_TRANSITIONS : IsSubstr(marker, Lower(entries[i + 1].text))
            \/ entries[i + 1].start - entries[i].end >= GapThreshold})
DetectTopicChanges(entries) ==
    SortedKeys({0} \cup
        {i \in 1..(Len(entries) - 1) :
            \/ \E marker \in TOPIC_TRANSITIONS : IsSubstr(marker, Lower(entries[i + 1].text))
            \/ entries[i + 1].start - entries[i].end > GapThreshold})

\* whether extract_key_quotes appends the text of an entry
IsQuote(text) ==
    IF \E kw \in EMOTION_KEYWORDS.excited : IsSubstr(kw, text) THEN TRUE
    ELSE IF IsSubstr(<<"uFF01">>, text) \/ IsSubstr(<<"!">>, text) THEN Len(text) > 10
    ELSE IF IsSubstr(<<"uFF1F">>, text) \/ IsSubstr(<<"?">>, text)
    THEN \E kw \in {<<"u4EC0", "u4E48">>, <<"u4E3A", "u4EC0", "u4E48">>,
                    <<"u600E", "u4E48">>, <<"u771F", "u7684">>} : IsSubstr(kw, text)
    ELSE FALSE

\* list(dict.fromkeys(quotes)): the first occurrence of each, in order
RECURSIVE Dedup(_)
Dedup(s) ==
    IF s = <<>> THEN <<>>
    ELSE LET rest == Dedup(SubSeq(s, 1, Len(s) - 1))
         IN  IF s[Len(s)] \in Range(rest) THEN rest ELSE Append(rest, s[Len(s)])

Take(s, n) == SubSeq(s, 1, Min(n, Len(s)))

ExtractKeyQuotes(entries) ==
    LET quoted == SelectSeq(entries, LAMBDA e : IsQuote(e.text))
    IN  Take(Dedup([i \in DOMAIN quoted |-> quoted[i].text]), 10)

\* the words extract_keywords counts in one text, in the order it meets them:
\* text[i : i + j] for i in range(len(text) - 1), j in range(2, min(5, len(text) - i + 1))
Words(text) ==
    LET at(i) == [j \in 1..(Min(4, Len(text) - i + 1) - 1) |-> SubSeq(text, i, i + j)]
        RECURSIVE from(_)
        from(i) == IF i > Len(text) - 1 THEN <<>> ELSE at(i) \o from(i + 1)
    IN  from(1)

\* zhe ge, na ge, shen me, yi ge, ke yi, jiu shi, wo men, ni men
SemanticStopWords ==
    {<<"u8FD9", "u4E2A">>, <<"u90A3", "u4E2A">>, <<"u4EC0", "u4E48">>,
     <<"u4E00", "u4E2A">>, <<"u53EF", "u4EE5">>, <<"u5C31", "u662F">>,
     <<"u6211", "u4EEC">>, <<"u4F60", "u4EEC">>}

\* word.isdigit()
IsDigit(word) ==
    \A i \in DOMAIN word : word[i] \in {"0", "1", "2", "3", "4", "5", "6", "7", "8", "9"}

\* SemanticAnalyzer.extract_keywords(text, top_n): the words of 2 to 4
\* characters that are not numbers, counted; most_common(top_n) orders by
\* count, descending, and keeps the order of first insertion among equals
SegmentKeywords(text, n) ==
    LET words == SelectSeq(Words(text), LAMBDA w : ~IsDigit(w))
        keys == SelectSeq(Dedup(words), LAMBDA w : w \notin SemanticStopWords)
        counted == [k \in DOMAIN keys |->
                       [word |-> keys[k],
                        count |-> Cardinality({i \in DOMAIN words : words[i] = keys[k]})]]
        common == Take(SortByCountDesc(counted), n)
    IN  [k \in DOMAIN common |-> common[k].word]

TextLimit == 200      \* segment_text[:200]

\* segment_text[:200] + ("..." if len(segment_text) > 200 else "")
ClipText(segment_text) ==
    IF Len(segment_text) > TextLimit
    THEN SubSeq(segment_text, 1, TextLimit) \o <<".", ".", ".">>
    ELSE segment_text

\* Segment(start=segment_entries[0].start, end=segment_entries[-1].end, ...)
MakeSegmentFirstEnd(segment_entries) ==
    LET segment_text == JoinSpace([i \in DOMAIN segment_entries |-> segment_entries[i].text])
    IN  [start            |-> segment_entries[1].start,
         end              |-> segment_entries[1].end,
         text             |-> ClipText(segment_text),
         excitement_score |-> CalculateExcitement(segment_text),
         key_quotes       |-> ExtractKeyQuotes(segment_entries),
         keywords         |-> SegmentKeywords(segment_text, 5)]
MakeSegment(segment_entries) ==
    LET segment_text == JoinSpace([i \in DOMAIN segment_entries |-> segment_entries[i].text])
    IN  [start            |-> segment_entries[1].start,
         end              |-> segment_entries[Len(segment_entries)].end,
         text             |-> ClipText(segment_text),
         excitement_score |-> CalculateExcitement(segment_text),
         key_quotes       |-> ExtractKeyQuotes(segment_entries),
         keywords         |-> SegmentKeywords(segment_text, 5)]

\* for i in range(len(change_points)): ... segments.append(segment)
SegmentsToEnd(entries, change_points) ==
    LET slice(i) == SubSeq(entries, change_points[i] + 1, Len(entries))
        kept == SelectSeq([i \in DOMAIN change_points |-> slice(i)], LAMBDA es : es # <<>>)
    IN  [k \in DOMAIN kept |-> MakeSegment(kept[k])]
Segments(entries, change_points) ==
    LET slice(i) ==
            SubSeq(entries, change_points[i] + 1,
                   IF i + 1 <= Len(change_points) THEN change_points[i + 1] ELSE Len(entries))
        kept == SelectSeq([i \in DOMAIN change_points |-> slice(i)], LAMBDA es : es # <<>>)
    IN  [k \in DOMAIN kept |-> MakeSegment(kept[k])]

\* highlights.sort(key=score, reverse=True): stable, descending
RECURSIVE SortByScoreAsc(_)
SortByScoreAsc(hs) ==
    IF hs = <<>> THEN <<>>
    ELSE LET i == CHOOSE i \in DOMAIN hs :
                    /\ \A j \in DOMAIN hs : hs[j].score >= hs[i].score
                    /\ \A j \in 1..(i - 1) : hs[j].score > hs[i].score
         IN  <<hs[i]>> \o SortByScoreAsc(SubSeq(hs, 1, i - 1) \o SubSeq(hs, i + 1, Len(hs)))
RECURSIVE SortByScoreDesc(_)
SortByScoreDesc(hs) ==
    IF hs = <<>> THEN <<>>
    ELSE LET i == CHOOSE i \in DOMAIN hs :
                    /\ \A j \in DOMAIN hs : hs[j].score <= hs[i].score
                    /\ \A j \in 1..(i - 1) : hs[j].score < hs[i].score
         IN  <<hs[i]>> \o SortByScoreDesc(SubSeq(hs, 1, i - 1) \o SubSeq(hs, i + 1, Len(hs)))

HighlightsUnsorted(segments) ==
    LET high == SelectSeq(segments, LAMBDA seg : seg.excitement_score >= 4)
    IN  [k \in DOMAIN high |->
            [start      |-> high[k].start,
             end        |-> high[k].end,
             score      |-> high[k].excitement_score,
             key_quotes |-> Take(high[k].key_quotes, 3)]]
Highlights(segments) ==
    LET high == SelectSeq(segments, LAMBDA seg : seg.excitement_score >= 4)
    IN  SortByScoreDesc([k \in DOMAIN high |->
            [start      |-> high[k].start,
             end        |-> high[k].end,
             score      |-> high[k].excitement_score,
             key_quotes |-> Take(high[k].key_quotes, 3)]])

\* analyze, after parse_srt has filled self.subtitles
AnalyzeSubtitles(entries) ==
    IF entries = <<>>
    THEN [status |-> "done", total_subtitles |-> 0, total_duration |-> 0,
          change_points |-> <<>>, segments |-> <<>>, highlights |-> <<>>]
    ELSE LET change_points == DetectTopicChanges(entries)
             segments == Segments(entries, change_points)
         IN  [status          |-> "done",
              change_points   |-> change_points,
              total_subtitles |-> Len(entries),
              total_duration  |-> entries[Len(entries)].end,
              segments        |-> segments,
              highlights      |-> Take(Highlights(segments), HighlightLimit)]

(***************************************************************************)
(* SemanticAnalyzer.parse_srt and analyze(subtitle_path)                   *)
(***************************************************************************)
\* a block of the file: the number of its lines, whether int(lines[0]) is a
\* number and which, whether its second line matches the time pattern, and
\* what _time_to_seconds makes of the two times; the text is
\* " ".join(lines[2:])
Block(nlines, index_ok, index, time_ok, start, end, text) ==
    [nlines |-> nlines, index_ok |-> index_ok, index |-> index,
     time_ok |-> time_ok, start |-> start, end |-> end, text |-> text]

\* whether parse_srt appends an entry for the block
BlockParses(b) == b.nlines >= 3 /\ b.index_ok /\ b.time_ok

\* for block in blocks: ... entries.append(SubtitleEntry(...))
ParseSrt(blocks) ==
    LET good == SelectSeq(blocks, BlockParses)
    IN  [i \in DOMAIN good |->
            [start |-> good[i].start, end |-> good[i].end,
             text |-> good[i].text, index |-> good[i].index]]

\* analyze: open() raises when the file is missing, and nothing catches it
AnalyzeSrtFile(file) ==
    IF ~file.exists
    THEN [subtitles |-> <<>>,
          result |-> [status |-> "error", error |-> "FileNotFoundError"]]
    ELSE LET entries == ParseSrt(file.blocks)
         IN  [subtitles |-> entries, result |-> AnalyzeSubtitles(entries)]

\* json.dump(result, f): analyze raises or returns before it when the file is
\* missing or no entry was parsed, so the file at output_path is written
\* only when an entry was parsed
SemanticArtifact(file, old) ==
    LET out == AnalyzeSrtFile(file)
    IN  IF out.subtitles = <<>> THEN old
        ELSE [exists |-> TRUE,
              json |-> [total_subtitles |-> out.result.total_subtitles,
                        total_duration  |-> out.result.total_duration,
                        segments        |->
                            [k \in DOMAIN out.result.segments |->
                                [start            |-> out.result.segments[k].start,
                                 end              |-> out.result.segments[k].end,
                                 excitement_score |-> out.result.segments[k].excitement_score,
                                 key_quotes       |-> out.result.segments[k].key_quotes,
                                 keywords         |-> out.result.segments[k].keywords]],
                        highlights      |-> out.result.highlights]]

\* the entries' start and end (an entry may end before it starts and start
\* before the entry in front of it: parse_srt checks neither)
EntrySpans == {<<0, 0>>, <<0, 2>>, <<2, 2>>, <<5, 5>>, <<2, 0>>}

\* a plain text, one with a transition marker, one with four emotion hits
EntryTexts ==
    {<<"x">>, <<"u7136", "u540E">>, <<"u7B11", "u6B7B", "u54C8", "u54C8">>}

\* blocks: the well-formed ones, one with two lines only, one whose first
\* line is not a number, one whose time line does not match
SrtBlocks ==
    {Block(3, TRUE, 1, TRUE, se[1], se[2], t) : se \in EntrySpans, t \in EntryTexts}
        \cup {Block(2, TRUE, 1, TRUE, 0, 2, <<>>),
              Block(3, FALSE, 0, TRUE, 0, 2, <<"x">>),
              Block(3, TRUE, 1, FALSE, 0, 0, <<"x">>)}

MissingFile == [exists |-> FALSE, blocks |-> <<>>, elems |-> <<>>]

EmptyFile == [exists |-> TRUE, blocks |-> <<>>, elems |-> <<>>]

\* a transcript of n blocks 3 seconds apart, each a segment of its own, with
\* four emotion hits in the odd blocks and five in the even ones
SrtRun(n) ==
    [i \in 1..n |->
        Block(3, TRUE, i, TRUE, 3 * (i - 1), 3 * (i - 1),
              IF i % 2 = 1 THEN <<"u7B11", "u6B7B", "u54C8", "u54C8">>
              ELSE <<"u795E", "u7B11", "u6B7B", "u54C8", "u54C8">>)]

SrtFiles ==
    {MissingFile}
        \cup {[exists |-> TRUE, blocks |-> bs, elems |-> <<>>] : bs \in SeqsUpTo(SrtBlocks, MaxEntries)}
        \cup {[exists |-> TRUE, blocks |-> SrtRun(n), elems |-> <<>>] : n \in 1..MaxSrtRun}

IdleSemantic ==
    /\ srt_file = EmptyFile
    /\ subtitles = <<>>
    /\ semantic_result = NoResult

StartSemantic ==
    /\ srt_file \in SrtFiles
    /\ subtitles = <<>>
    /\ semantic_result = NoResult

\* SemanticAnalyzer.analyze(subtitle_path)
AnalyzeSemantic ==
    /\ semantic_result = NoResult
    /\ subtitles' = AnalyzeSrtFile(srt_file).subtitles
    /\ semantic_result' = AnalyzeSrtFile(srt_file).result
    /\ semantic_json' = SemanticArtifact(srt_file, semantic_json)
    /\ UNCHANGED srt_file
    /\ UNCHANGED <<template, top_n, danmaku_json, recommendations, clip_prev>>
    /\ UNCHANGED <<densityVars, trackVars, exciteVars, danmakuVars>>

(***************************************************************************)
(* DanmakuAnalyzer.parse_danmaku_xml and analyze(danmaku_path)             *)
(***************************************************************************)
\* a <d> element of the file: the number of fields of p, whether float(p[0])
\* and int(p[1]) are numbers and which, p[6] and d.text
RawElem(nfields, time_ok, time, mode_ok, mode, user, text) ==
    [nfields |-> nfields, time_ok |-> time_ok, time |-> time,
     mode_ok |-> mode_ok, mode |-> mode, user |-> user, text |-> text]

\* float(p[0]) or int(p[1]) raises
ElemRaises(d) == d.nfields >= 8 /\ (~d.time_ok \/ ~d.mode_ok)

\* the elements the for loop gets through: an exception ends the loop, and
\* the except clause around the whole loop keeps what was appended before it
BeforeException(elems) ==
    LET bad == {i \in DOMAIN elems : ElemRaises(elems[i])}
    IN  IF bad = {} THEN elems
        ELSE SubSeq(elems, 1, (CHOOSE i \in bad : \A j \in bad : i <= j) - 1)

\* sorted(danmaku_list, key=time): stable
RECURSIVE SortByTime(_)
SortByTime(ds) ==
    IF ds = <<>> THEN <<>>
    ELSE LET i == CHOOSE i \in DOMAIN ds :
                    /\ \A j \in DOMAIN ds : ds[j].time >= ds[i].time
                    /\ \A j \in 1..(i - 1) : ds[j].time > ds[i].time
         IN  <<ds[i]>> \o SortByTime(SubSeq(ds, 1, i - 1) \o SubSeq(ds, i + 1, Len(ds)))

\* parse_danmaku_xml: ET.parse raises for a missing file, inside the try
ParseDanmakuXml(file) ==
    IF ~file.exists THEN <<>>
    ELSE LET seen == SelectSeq(BeforeException(file.elems), LAMBDA d : d.nfields >= 8)
         IN  SortByTime([i \in DOMAIN seen |->
                [time |-> seen[i].time, text |-> seen[i].text,
                 mode |-> seen[i].mode, user |-> seen[i].user]])

RECURSIVE AllWords(_)
AllWords(texts) == IF texts = <<>> THEN <<>> ELSE Words(Head(texts)) \o AllWords(Tail(texts))

\* ha ha, a a, shen me, zhe ge, na ge, jin tian, xian zai, zhen de, ke yi
DanmakuStopWords ==
    {<<"u54C8", "u54C8">>, <<"u554A", "u554A">>, <<"u4EC0", "u4E48">>,
     <<"u8FD9", "u4E2A">>, <<"u90A3", "u4E2A">>, <<"u4ECA", "u5929">>,
     <<"u73B0", "u5728">>, <<"u771F", "u7684">>, <<"u53EF", "u4EE5">>}

\* DanmakuAnalyzer.extract_keywords: Counter.most_common(top_n) orders by
\* count, descending, and keeps the order of first insertion among equals
extract_keywords(texts, n) ==
    LET words == AllWords(texts)
        keys == SelectSeq(Dedup(words), LAMBDA w : w \notin DanmakuStopWords)
        counted == [k \in DOMAIN keys |->
                       [word |-> keys[k],
                        count |-> Cardinality({i \in DOMAIN words : words[i] = keys[k]})]]
        common == Take(SortByCountDesc(counted), n)
    IN  [k \in DOMAIN common |-> common[k].word]

\* analyze(danmaku_path)
AnalyzeDanmakuFile(file, W) ==
    LET list == ParseDanmakuXml(file)
    IN  IF list = <<>>
        THEN [status |-> "done", total_danmaku |-> 0, total_users |-> 0,
              avg_density |-> [num |-> 0, den |-> 1], peak_moments |-> <<>>]
        ELSE LET density == CalculateDensity(list, W)
             IN  [status        |-> "done",
                  total_danmaku |-> Len(list),
                  total_users   |-> Cardinality({list[i].user : i \in DOMAIN list}),
                  avg_density   |-> density.avg_density,
                  window_size   |-> W,
                  peak_moments  |->
                      [k \in DOMAIN density.peak_windows |->
                          [start        |-> density.peak_windows[k].start,
                           end          |-> density.peak_windows[k].end,
                           density      |-> density.peak_windows[k].count,
                           unique_users |-> density.peak_windows[k].unique_users,
                           keywords     |-> extract_keywords(density.peak_windows[k].texts, 5)]]]

\* json.dump(result, f): analyze returns before it for an empty list, so the
\* file at output_path is written only when a comment was parsed
DanmakuArtifact(file, W, old) ==
    LET result == AnalyzeDanmakuFile(file, W)
    IN  IF ParseDanmakuXml(file) = <<>> THEN old
        ELSE [exists |-> TRUE,
              json |-> [total_danmaku |-> result.total_danmaku,
                        total_users   |-> result.total_users,
                        avg_density   |-> result.avg_density,
                        window_size   |-> result.window_size,
                        peak_moments  |-> result.peak_moments]]

FileTimes == {0, 1, 3}

\* elements: the well-formed ones, one with a short p, one whose time is not
\* a number, one whose mode is not a number
RawElems ==
    {RawElem(8, TRUE, t, TRUE, 1, u, <<"a">>) : t \in FileTimes, u \in Users}
        \cup {RawElem(2, TRUE, 0, TRUE, 1, "u1", <<"a">>),
              RawElem(8, FALSE, 0, TRUE, 1, "u1", <<"a">>),
              RawElem(8, TRUE, 0, FALSE, 0, "u1", <<"a">>)}

DanmakuFiles ==
    {MissingFile} \cup {[exists |-> TRUE, blocks |-> <<>>, elems |-> es] : es \in SeqsUpTo(RawElems, MaxElems)}

IdleDanmaku ==
    /\ danmaku_file = EmptyFile
    /\ danmaku_parsed = <<>>
    /\ danmaku_analysis = NoResult

StartDanmaku ==
    /\ danmaku_file \in DanmakuFiles
    /\ danmaku_parsed = <<>>
    /\ danmaku_analysis = NoResult

\* DanmakuAnalyzer.analyze(danmaku_path)
AnalyzeDanmaku ==
    /\ danmaku_analysis = NoResult
    /\ danmaku_parsed' = ParseDanmakuXml(danmaku_file)
    /\ danmaku_analysis' = AnalyzeDanmakuFile(danmaku_file, window_size)
    /\ danmaku_json' = DanmakuArtifact(danmaku_file, window_size, danmaku_json)
    /\ UNCHANGED danmaku_file
    /\ UNCHANGED <<template, top_n, semantic_json, recommendations, clip_prev>>
    /\ UNCHANGED <<densityVars, trackVars, exciteVars, semanticVars>>

(***************************************************************************)
(* SmartClipper                                                            *)
(***************************************************************************)
None == [none |-> TRUE]

EmptyDict == <<>>

\* d.get(key, default)
Get(d, key, default) == IF key \in DOMAIN d THEN d[key] ELSE default

\* __init__: self.template = template or {}
SelfTemplate(tpl) == IF tpl = None \/ tpl = EmptyDict THEN EmptyDict ELSE tpl

\* __init__: self.clip_config = template.get("clip_config", {}) if template else {}
SelfClipConfig(tpl) ==
    IF tpl = None \/ tpl = EmptyDict THEN EmptyDict ELSE Get(tpl, "clip_config", EmptyDict)

score_danmaku_density(moment) ==
    LET density == Get(moment, "density", 0)
    IN  IF density >= 150 THEN 100
        ELSE IF density >= 100 THEN 80
        ELSE IF density >= 80 THEN 60
        ELSE IF density >= 50 THEN 40
        ELSE 20

score_semantic_quality(highlight) ==
    LET excitement == Get(highlight, "excitement_score", 1)
        score == excitement * 20
    IN  IF Get(highlight, "key_quotes", <<>>) # <<>> THEN Min(100, score + 10) ELSE score

score_template_match(tpl, moment, highlight) ==
    IF SelfTemplate(tpl) = EmptyDict THEN 50
    ELSE LET memes == Get(SelfTemplate(tpl), "memes", <<>>)
             keywords == Get(moment, "keywords", <<>>) \o Get(highlight, "keywords", <<>>)
             text == Lower(JoinSpace(keywords))
             matched_memes == SelectSeq(memes, LAMBDA meme : IsSubstr(Lower(meme), text))
         IN  Min(100, 50 + Len(matched_memes) * 10)

\* The value is counted in half points (twice the Python value), so that
\* the 0.5 points per second of the last branch stay exact.
score_duration_fit(tpl, duration) ==
    IF SelfClipConfig(tpl) = EmptyDict
    THEN IF 60 <= duration /\ duration <= 180 THEN 200
         ELSE IF (30 <= duration /\ duration < 60) \/ (180 < duration /\ duration <= 300) THEN 140
         ELSE 80
    ELSE LET min_duration == Get(SelfClipConfig(tpl), "min_duration", 60)
             max_duration == Get(SelfClipConfig(tpl), "max_duration", 300)
         IN  IF min_duration <= duration /\ duration <= max_duration THEN 200
             ELSE IF duration < min_duration
                  THEN Max(0, 200 - (min_duration - duration) * 4)
                  ELSE Max(0, 200 - (duration - max_duration))

\* max(0, min(dm_end, hl_end) - max(dm_start, hl_start))
Overlap(dm_peak, hl) == Max(0, Min(dm_peak.end, hl.end) - Max(dm_peak.start, hl.start))

\* the dict appended in step 1 of merge_moments
MergedPairUnclipped(dm_peak, hl) ==
    [start    |-> Min(dm_peak.start, hl.start),
     end      |-> Max(dm_peak.end, hl.end),
     danmaku  |-> dm_peak,
     semantic |-> hl,
     overlap  |-> Overlap(dm_peak, hl)]
MergedPair(dm_peak, hl) ==
    LET merged_start == Min(dm_peak.start, hl.start)
        merged_end == Max(dm_peak.end, hl.end)
    IN  [start    |-> merged_start,
         end      |-> IF merged_end - merged_start > 180 THEN merged_start + 180 ELSE merged_end,
         danmaku  |-> dm_peak,
         semantic |-> hl,
         overlap  |-> Overlap(dm_peak, hl)]

\* step 1 of merge_moments: the nested loops over peaks and highlights
DirectMatches(danmaku_peaks, semantic_highlights) ==
    LET H == Len(semantic_highlights)
        pairs == [k \in 1..(Len(danmaku_peaks) * H) |->
                     <<danmaku_peaks[((k - 1) \div H) + 1], semantic_highlights[((k - 1) % H) + 1]>>]
        close == SelectSeq(pairs, LAMBDA p : Overlap(p[1], p[2]) > 10)
    IN  [k \in DOMAIN close |-> MergedPair(close[k][1], close[k][2])]

\* step 2 of merge_moments: for dm_peak in danmaku_peaks[:5]
RECURSIVE AddPeaksAll(_, _)
AddPeaksAll(merged, peaks) ==
    IF peaks = <<>> THEN merged
    ELSE AddPeaksAll(Append(merged, [start |-> Head(peaks).start, end |-> Head(peaks).end,
                                     danmaku |-> Head(peaks), semantic |-> None,
                                     overlap |-> 0]), Tail(peaks))
RECURSIVE AddPeaks(_, _)
AddPeaks(merged, peaks) ==
    IF peaks = <<>> THEN merged
    ELSE LET dm_peak == Head(peaks)
         IN  IF \E i \in DOMAIN merged : merged[i].danmaku = dm_peak
             THEN AddPeaks(merged, Tail(peaks))
             ELSE AddPeaks(Append(merged, [start |-> dm_peak.start, end |-> dm_peak.end,
                                           danmaku |-> dm_peak, semantic |-> None,
                                           overlap |-> 0]), Tail(peaks))

\* step 2 of merge_moments: for hl in semantic_highlights[:5]
RECURSIVE AddHighlights(_, _)
AddHighlights(merged, highlights) ==
    IF highlights = <<>> THEN merged
    ELSE LET hl == Head(highlights)
         IN  IF \E i \in DOMAIN merged : merged[i].semantic = hl
             THEN AddHighlights(merged, Tail(highlights))
             ELSE AddHighlights(Append(merged, [start |-> hl.start, end |-> hl.end,
                                                danmaku |-> None, semantic |-> hl,
                                                overlap |-> 0]), Tail(highlights))

\* the seen-set loop of merge_moments; int() of a whole second is itself
RECURSIVE UniqueMergedLast(_)
UniqueMergedLast(merged) ==
    IF merged = <<>> THEN <<>>
    ELSE LET rest == Tail(merged)
             m == Head(merged)
         IN  IF \E i \in DOMAIN rest : rest[i].start = m.start /\ rest[i].end = m.end
             THEN UniqueMergedLast(rest)
             ELSE <<m>> \o UniqueMergedLast(rest)
RECURSIVE UniqueMerged(_)
UniqueMerged(merged) ==
    IF merged = <<>> THEN <<>>
    ELSE LET front == SubSeq(merged, 1, Len(merged) - 1)
             m == merged[Len(merged)]
         IN  IF \E i \in DOMAIN front : front[i].start = m.start /\ front[i].end = m.end
             THEN UniqueMerged(front)
             ELSE Append(UniqueMerged(front), m)

\* list.sort(key=lambda x: x["start"])
RECURSIVE SortByStart(_)
SortByStart(ms) ==
    IF ms = <<>> THEN <<>>
    ELSE LET i == CHOOSE i \in DOMAIN ms :
                    /\ \A j \in DOMAIN ms : ms[i].start <= ms[j].start
                    /\ \A j \in 1..(i - 1) : ms[i].start < ms[j].start
         IN  <<ms[i]>> \o SortByStart(SubSeq(ms, 1, i - 1) \o SubSeq(ms, i + 1, Len(ms)))

\* merged, as it stands after steps 1 and 2 of merge_moments
MergedCandidates(danmaku_result, semantic_result_json) ==
    LET danmaku_peaks == Get(danmaku_result, "peak_moments", <<>>)
        semantic_highlights == Get(semantic_result_json, "highlights", <<>>)
        direct == DirectMatches(danmaku_peaks, semantic_highlights)
    IN  IF Len(direct) < 5
        THEN AddHighlights(AddPeaks(direct, Take(danmaku_peaks, 5)),
                           Take(semantic_highlights, 5))
        ELSE direct

merge_moments(danmaku_result, semantic_result_json) ==
    SortByStart(UniqueMerged(MergedCandidates(danmaku_result, semantic_result_json)))

\* `x or {}`
OrEmpty(v) == IF v = None THEN EmptyDict ELSE v

QuoteLimit == 20      \* len(quote) <= 20

TitleLimit == 80      \* len(title) > 80

\* zhu bo
DefaultStreamer == <<"u4E3B", "u64AD">>

\* jing cai shi ke
DefaultKeyword == <<"u7CBE", "u5F69", "u65F6", "u523B">>

\* " | gao neng ming chang mian"
HighEnergyTail == <<" ", "|", " ", "u9AD8", "u80FD", "u540D", "u573A", "u9762">>

\* " | jing cai pian duan"
HighlightTail == <<" ", "|", " ", "u7CBE", "u5F69", "u7247", "u6BB5">>

\* the title before "if len(title) > 80"
TitleText(tpl, keywords, highlight) ==
    LET streamer == Get(SelfTemplate(tpl), "name", DefaultStreamer)
        main_keyword == IF keywords # <<>> THEN keywords[1] ELSE DefaultKeyword
        key_quotes == Get(highlight, "key_quotes", <<>>)
    IN  IF key_quotes # <<>>
        THEN IF Len(key_quotes[1]) <= QuoteLimit
             THEN <<"[">> \o streamer \o <<"]", " ">> \o key_quotes[1]
             ELSE <<"[">> \o streamer \o <<"]">> \o main_keyword \o HighEnergyTail
        ELSE <<"[">> \o streamer \o <<"]">> \o main_keyword \o HighlightTail

generate_title_uncut(tpl, keywords, highlight) == TitleText(tpl, keywords, highlight)
generate_title(tpl, keywords, highlight) ==
    LET title == TitleText(tpl, keywords, highlight)
    IN  IF Len(title) > TitleLimit
        THEN SubSeq(title, 1, TitleLimit - 3) \o <<".", ".", ".">>
        ELSE title

\* the body of the scoring loop of generate_recommendations
Recommend(tpl, moment) ==
    LET dm_data == OrEmpty(moment.danmaku)
        hl_data == OrEmpty(moment.semantic)
        duration == moment.end - moment.start
        dm_score == score_danmaku_density(dm_data)
        sem_score == score_semantic_quality(hl_data)
        template_score == score_template_match(tpl, dm_data, hl_data)
        duration_score == score_duration_fit(tpl, duration)
        keywords == Take(Dedup(Get(dm_data, "keywords", <<>>)
                                 \o Get(hl_data, "keywords", <<>>)), 5)
    IN  [start    |-> moment.start,
         end      |-> moment.end,
         duration |-> duration,
         title    |-> generate_title(tpl, keywords, hl_data),
         keywords |-> keywords,
         score    |-> (60 * dm_score + 80 * sem_score + 40 * template_score
                         + 10 * duration_score) \div 200,
         score_breakdown |-> [danmaku  |-> dm_score,
                              semantic |-> sem_score,
                              template |-> template_score,
                              duration |-> duration_score]]

\* overlap_end - overlap_start > 30
OverlapsTooMuchAbove60(rec, kept) == Min(rec.end, kept.end) - Max(rec.start, kept.start) > 60
OverlapsTooMuch(rec, kept) == Min(rec.end, kept.end) - Max(rec.start, kept.start) > 30

\* the filtering loop of generate_recommendations
RECURSIVE FilteredCarried(_)
FilteredCarried(recs) ==
    IF recs = <<>>
    THEN IF clip_prev # NoResult /\ clip_prev.status = "done" THEN clip_prev.filtered ELSE <<>>
    ELSE LET filtered == FilteredCarried(SubSeq(recs, 1, Len(recs) - 1))
             rec == recs[Len(recs)]
         IN  IF \E i \in DOMAIN filtered : OverlapsTooMuch(rec, filtered[i])
             THEN filtered
             ELSE Append(filtered, rec)
RECURSIVE Filtered(_)
Filtered(recs) ==
    IF recs = <<>> THEN <<>>
    ELSE LET filtered == Filtered(SubSeq(recs, 1, Len(recs) - 1))
             rec == recs[Len(recs)]
         IN  IF \E i \in DOMAIN filtered : OverlapsTooMuch(rec, filtered[i])
             THEN filtered
             ELSE Append(filtered, rec)

\* filtered[:top_n]
Slice(s, n) == IF n >= 0 THEN Take(s, n) ELSE SubSeq(s, 1, Max(0, Len(s) + n))

generate_recommendations(tpl, danmaku_result_path, semantic_result_path, n) ==
    IF ~danmaku_result_path.exists \/ ~semantic_result_path.exists
    THEN [status |-> "error", error |-> "FileNotFoundError"]
    ELSE LET merged == merge_moments(danmaku_result_path.json, semantic_result_path.json)
             scored == [k \in DOMAIN merged |-> Recommend(tpl, merged[k])]
             ranked == SortByScoreDesc(scored)
         IN  [status   |-> "done",
              direct   |-> DirectMatches(
                               Get(danmaku_result_path.json, "peak_moments", <<>>),
                               Get(semantic_result_path.json, "highlights", <<>>)),
              added    |-> MergedCandidates(danmaku_result_path.json,
                                            semantic_result_path.json),
              merged   |-> merged,
              scored   |-> scored,
              ranked   |-> ranked,
              filtered |-> Filtered(ranked),
              returned |-> Slice(Filtered(ranked), n)]

(***************************************************************************)
(* The analysis results, presets and top_n the clipper is run on.          *)
(***************************************************************************)
PeakStarts == {0, 60, 120}

PeakSpan == 60

MemeText == <<"G", "G">>

\* (density, unique_users, keywords) of a peak window
PeakKinds == {<<40, 3, <<>>>>, <<160, 9, <<<<"g", "g">>>>>>}

PeakMoments ==
    {[start |-> s, end |-> s + PeakSpan, density |-> k[1], unique_users |-> k[2],
      keywords |-> k[3]] : s \in PeakStarts, k \in PeakKinds}

\* peak_moments as DanmakuAnalyzer.analyze writes them: one for a window,
\* the densest first
PeakLists ==
    {ps \in SeqsUpTo(PeakMoments, MaxPeaks) :
        \A i, j \in DOMAIN ps : i < j => /\ ps[i].start # ps[j].start
                                         /\ ps[i].density >= ps[j].density}

HighlightSpans == {<<20, 100>>, <<50, 90>>, <<90, 200>>, <<100, 400>>}

\* (score, key_quotes) of a highlight
HighlightKinds == {<<4, <<>>>>, <<5, <<<<"G", "G", "uFF01">>>>>>}

HighlightDicts ==
    {[start |-> sp[1], end |-> sp[2], score |-> k[1], key_quotes |-> k[2]] :
        sp \in HighlightSpans, k \in HighlightKinds}

\* highlights as SemanticAnalyzer.analyze writes them: the best score first
HighlightLists ==
    {hs \in SeqsUpTo(HighlightDicts, MaxHighlights) :
        \A i, j \in DOMAIN hs : i < j => hs[i].score >= hs[j].score}

\* k peaks in consecutive windows, the first one the densest
PeakRun(k) ==
    [i \in 1..k |->
        [start |-> PeakSpan * (i - 1), end |-> PeakSpan * i,
         density |-> IF i = 1 THEN 160 ELSE 40,
         unique_users |-> IF i = 1 THEN 9 ELSE 3,
         keywords |-> IF i = 1 THEN <<<<"g", "g">>>> ELSE <<>>]]

\* m highlights, highlight i lying across the windows 2i - 1 and 2i of a
\* peak run (20 s into the first, 40 s into the second)
HighlightRun(m) ==
    [i \in 1..m |->
        [start |-> 2 * PeakSpan * (i - 1) + 20, end |-> 2 * PeakSpan * (i - 1) + 100,
         score |-> 4, key_quotes |-> <<>>]]

MissingJson == [exists |-> FALSE, json |-> EmptyDict]

DanmakuJsons ==
    {[exists |-> TRUE, json |-> [peak_moments |-> ps]] : ps \in PeakLists}

SemanticJsons ==
    {[exists |-> TRUE, json |-> [highlights |-> hs]] : hs \in HighlightLists}

Templates ==
    {None,
     [name |-> <<"S">>, memes |-> <<MemeText>>],
     [name |-> <<"S">>, memes |-> <<MemeText>>,
      clip_config |-> [min_duration |-> 60, max_duration |-> 100]],
     [name |-> <<"S">>, clip_config |-> [min_duration |-> 90]],
     [name |-> <<"S">>, clip_config |-> [max_duration |-> 99]]}

TopNs == {2, 10}

IdleClip ==
    /\ template = None
    /\ top_n = 10
    /\ danmaku_json = MissingJson
    /\ semantic_json = MissingJson
    /\ recommendations = NoResult
    /\ clip_prev = NoResult

\* a name or a quote of n characters
Chars(c, n) == [i \in 1..n |-> c]

\* presets for the titles: none, a short name, one as long as a title may be
TitleTemplates == {None, [name |-> Chars("S", 1)], [name |-> Chars("S", MaxNameLen)]}

\* no peak, and one peak with a keyword
TitleDanmakuJsons ==
    {[exists |-> TRUE, json |-> [peak_moments |-> ps]] :
        ps \in {<<>>, <<[start |-> 60, end |-> 120, density |-> 160, unique_users |-> 9,
                         keywords |-> <<<<"g", "g">>>>]>>}}

\* one highlight: without a quote, with a first quote of QuoteLimit
\* characters, of one more, and with a long quote behind a short one
TitleSemanticJsons ==
    {[exists |-> TRUE,
      json |-> [highlights |-> <<[start |-> 20, end |-> 100, score |-> 4, key_quotes |-> qs]>>]] :
        qs \in {<<>>, <<Chars("q", QuoteLimit)>>, <<Chars("q", QuoteLimit + 1)>>,
                <<Chars("q", 3), Chars("q", QuoteLimit + 1)>>}}

StartClip ==
    /\ top_n \in TopNs
    /\ \/ /\ template \in TitleTemplates
          /\ danmaku_json \in TitleDanmakuJsons
          /\ semantic_json \in TitleSemanticJsons
       \/ /\ template \in Templates
          /\ \/ danmaku_json \in DanmakuJsons /\ semantic_json \in SemanticJsons
             \/ /\ danmaku_json \in {[exists |-> TRUE, json |-> [peak_moments |-> PeakRun(k)]] :
                                        k \in 0..MaxPeakRun}
                /\ semantic_json \in {[exists |-> TRUE, json |-> [highlights |-> HighlightRun(m)]] :
                                         m \in 0..MaxHighlightRun}
             \/ /\ danmaku_json = MissingJson
                /\ semantic_json \in {MissingJson, [exists |-> TRUE, json |-> [highlights |-> <<>>]]}
             \/ /\ danmaku_json = [exists |-> TRUE, json |-> [peak_moments |-> <<>>]]
                /\ semantic_json = MissingJson
    /\ recommendations = NoResult
    /\ clip_prev = NoResult

\* SmartClipper(template).generate_recommendations(danmaku, semantic, top_n)
GenerateRecommendations ==
    /\ recommendations = NoResult
    /\ recommendations' = generate_recommendations(template, danmaku_json, semantic_json, top_n)
    /\ UNCHANGED <<template, top_n, danmaku_json, semantic_json, clip_prev>>
    /\ UNCHANGED <<densityVars, trackVars, exciteVars, semanticVars, danmakuVars>>

(***************************************************************************)
(* The engine run on one broadcast: the two analyzers, each writing its    *)
(* JSON file next to its input, then the clipper on the two JSON files;    *)
(* and the same run once more on the same inputs.                          *)
(***************************************************************************)
PipeComment(t, u) == RawElem(8, TRUE, t, TRUE, 1, u, <<"G", "G">>)

\* comment files: k comments at 0, then some at 1 and 3
PipeDanmakuFiles ==
    {[exists |-> TRUE, blocks |-> <<>>,
      elems |-> [i \in 1..k |-> PipeComment(0, "u1")] \o tail] :
        k \in 0..MaxPipeBurst,
        tail \in SeqsUpTo({PipeComment(1, "u2"), PipeComment(3, "u1")}, MaxPipeTail)}

PipeBlocks ==
    {Block(3, TRUE, 1, TRUE, 0, 2, <<"x">>),
     Block(3, TRUE, 2, TRUE, 2, 5, <<"u7B11", "u6B7B", "u54C8", "u54C8">>),
     Block(3, TRUE, 3, TRUE, 5, 5, <<"u7136", "u540E">>),
     Block(2, TRUE, 1, TRUE, 0, 2, <<>>)}

PipeSrtFiles ==
    {[exists |-> TRUE, blocks |-> bs, elems |-> <<>>] : bs \in SeqsUpTo(PipeBlocks, MaxPipeBlocks)}

\* no preset, one whose phrase is in the comments, one whose second phrase
\* (xiao si) is in the transcript
PipeTemplates ==
    {None,
     [name |-> <<"S">>, memes |-> <<MemeText>>],
     [name |-> <<"S">>, memes |-> <<MemeText, <<"u7B11", "u6B7B">>>>]}

StartPipeline ==
    /\ window_size \in {1, 2}
    /\ danmaku_list = <<>>
    /\ density_result = NoResult
    /\ danmaku_file \in PipeDanmakuFiles
    /\ danmaku_parsed = <<>>
    /\ danmaku_analysis = NoResult
    /\ srt_file \in PipeSrtFiles
    /\ subtitles = <<>>
    /\ semantic_result = NoResult
    /\ template \in PipeTemplates
    /\ top_n = 10
    /\ danmaku_json = MissingJson
    /\ semantic_json = MissingJson
    /\ recommendations = NoResult
    /\ clip_prev = NoResult

\* smart_clipper.py --danmaku ... --semantic ..., once both analyzers ended
FuseArtifacts ==
    /\ danmaku_analysis # NoResult
    /\ semantic_result # NoResult
    /\ GenerateRecommendations

\* the engine is started a second time on the same files and preset; what
\* the files on disk hold stays
RunAgain ==
    /\ recommendations # NoResult
    /\ clip_prev = NoResult
    /\ clip_prev' = recommendations
    /\ recommendations' = NoResult
    /\ danmaku_parsed' = <<>>
    /\ danmaku_analysis' = NoResult
    /\ subtitles' = <<>>
    /\ semantic_result' = NoResult
    /\ UNCHANGED <<danmaku_file, srt_file, template, top_n, danmaku_json, semantic_json>>
    /\ UNCHANGED <<densityVars, trackVars, exciteVars>>

(***************************************************************************)
(* Specifications, one for each component.                                 *)
(***************************************************************************)
InitDensity ==
    StartDensity /\ IdleTrack /\ IdleExcite /\ IdleSemantic /\ IdleDanmaku /\ IdleClip

NextDensity == CalcDensity

SpecDensity == InitDensity /\ [][NextDensity]_vars

InitTrack ==
    StartTrack /\ IdleDensity /\ IdleExcite /\ IdleSemantic /\ IdleDanmaku /\ IdleClip

NextTrack == XmlToAssStep \/ WriteAss

SpecTrack == InitTrack /\ [][NextTrack]_vars

InitExcite ==
    IdleExcite /\ IdleDensity /\ IdleTrack /\ IdleSemantic /\ IdleDanmaku /\ IdleClip

NextExcite == CalcExcitement

SpecExcite == InitExcite /\ [][NextExcite]_vars

InitSemantic ==
    StartSemantic /\ IdleDensity /\ IdleTrack /\ IdleExcite /\ IdleDanmaku /\ IdleClip

NextSemantic == AnalyzeSemantic

SpecSemantic == InitSemantic /\ [][NextSemantic]_vars

\* the two analyzers, each given a file
InitAnalyze ==
    /\ IdleDensity /\ IdleTrack /\ IdleExcite /\ IdleClip
    /\ \/ StartSemantic /\ IdleDanmaku
       \/ StartDanmaku /\ IdleSemantic

NextAnalyze == AnalyzeSemantic \/ AnalyzeDanmaku

SpecAnalyze == InitAnalyze /\ [][NextAnalyze]_vars

InitClip ==
    StartClip /\ IdleDensity /\ IdleTrack /\ IdleExcite /\ IdleSemantic /\ IdleDanmaku

NextClip == GenerateRecommendations

SpecClip == InitClip /\ [][NextClip]_vars

InitPipeline == StartPipeline /\ IdleTrack /\ IdleExcite

NextPipeline == AnalyzeDanmaku \/ AnalyzeSemantic \/ FuseArtifacts \/ RunAgain

SpecPipeline == InitPipeline /\ [][NextPipeline]_vars

(***************************************************************************)
(* Claims about calculate_density, checked under SpecDensity.              *)
(***************************************************************************)
DensityDone == density_result.status = "done"

TimesOf(list) == {list[i].time : i \in DOMAIN list}

InWindow(list, lo, hi) == {i \in DOMAIN list : lo <= list[i].time /\ list[i].time < hi}

\* C4: every returned window starts at a multiple of W (floor(t/W)*W for the
\* timestamps t it holds), ends W later, and counts exactly the input events
\* whose timestamp lies in [start, end); every input event lies in a window.
C4_WindowCount ==
    DensityDone =>
        /\ \A k \in DOMAIN density_result.windows :
              LET w == density_result.windows[k]
              IN  /\ w.start % window_size = 0
                  /\ w.end = w.start + window_size
                  /\ w.count = Cardinality(InWindow(danmaku_list, w.start, w.end))
        /\ \A i \in DOMAIN danmaku_list :
              \E k \in DOMAIN density_result.windows :
                  /\ density_result.windows[k].start <= danmaku_list[i].time
                  /\ danmaku_list[i].time < density_result.windows[k].end

C4_Witness ==
    /\ DensityDone
    /\ Len(density_result.windows) >= 2
    /\ \E k \in DOMAIN density_result.windows :
          /\ density_result.windows[k].count >= 2
          /\ \E i \in DOMAIN danmaku_list :
                /\ danmaku_list[i].time % window_size # 0
                /\ density_result.windows[k].start <= danmaku_list[i].time
                /\ danmaku_list[i].time < density_result.windows[k].end

\* C5 as stated: the windows are the contiguous run 0, W, 2W, ... up to
\* floor(maxTimestamp/W)*W, empty windows included, and averageDensity
\* divides by that number of windows.
C5_ContiguousWindows ==
    (DensityDone /\ danmaku_list # <<>>) =>
        LET last == CHOOSE m \in TimesOf(danmaku_list) :
                        \A t \in TimesOf(danmaku_list) : t <= m
        IN  /\ {density_result.windows[k].start : k \in DOMAIN density_result.windows}
                 = {k * window_size : k \in 0..(last \div window_size)}
            /\ density_result.avg_density.den = (last \div window_size) + 1

\* C5 amended: the windows are, in strictly ascending order of start, exactly
\* the multiples of W whose window holds at least one comment (a window
\* without a comment is not emitted), and averageDensity is the number of
\* comments divided by the number of those non-empty windows.
C5_NonEmptyWindows ==
    (DensityDone /\ danmaku_list # <<>>) =>
        LET ws == density_result.windows
        IN  /\ \A k \in DOMAIN ws : ws[k].count >= 1
            /\ \A k \in DOMAIN ws : \A l \in DOMAIN ws :
                  k < l => ws[k].start < ws[l].start
            /\ {ws[k].start : k \in DOMAIN ws}
                 = {m \in 0..MaxTime + 2 * (LowPad + MaxMid + MaxHigh) :
                        /\ m % window_size = 0
                        /\ InWindow(danmaku_list, m, m + window_size) # {}}
            /\ density_result.avg_density.num = Len(danmaku_list)
            /\ density_result.avg_density.den = Len(ws)

\* a window without a comment lies between two windows that are returned
C5_Witness ==
    /\ DensityDone
    /\ \E k \in DOMAIN density_result.windows :
          /\ k + 1 \in DOMAIN density_result.windows
          /\ density_result.windows[k].end < density_result.windows[k + 1].start

\* C6: every peak exceeds 1.5 * averageDensity, the peaks are in
\* non-increasing order of count, there are at most 10 of them, each is one
\* of the windows, and no window left out has a larger count than a peak.
C6_Peaks ==
    DensityDone =>
        LET ps == density_result.peak_windows
            avg == density_result.avg_density
        IN  /\ Len(ps) <= 10
            /\ \A k \in DOMAIN ps :
                  /\ ps[k] \in Range(density_result.windows)
                  /\ 2 * ps[k].count * avg.den > 3 * avg.num
            /\ \A k \in DOMAIN ps : \A l \in DOMAIN ps :
                  k < l => ps[k].count >= ps[l].count
            /\ \A w \in Range(density_result.windows) \ Range(ps) :
                  \A k \in DOMAIN ps : w.count <= ps[k].count

\* more than 10 windows exceed the threshold, with different counts
C6_Witness ==
    /\ DensityDone
    /\ Len(density_result.peak_windows) = 10
    /\ \E w \in Range(density_result.windows) \ Range(density_result.peak_windows) :
          /\ 2 * w.count * density_result.avg_density.den
                > 3 * density_result.avg_density.num
          /\ w.count < density_result.peak_windows[1].count
    /\ density_result.peak_windows[1].count > density_result.peak_windows[10].count

\* C7: averageDensity is 0 exactly when no window is returned.
C7_AvgZeroIffNoWindows ==
    DensityDone =>
        (density_result.avg_density.num = 0 <=> density_result.windows = <<>>)

\* the empty stream: no window, average 0, no peak
C7_Witness ==
    /\ DensityDone
    /\ danmaku_list = <<>>
    /\ density_result.windows = <<>>
    /\ density_result.avg_density.num = 0
    /\ density_result.peak_windows = <<>>

(***************************************************************************)
(* Claims about the track allocator, checked under SpecTrack.              *)
(***************************************************************************)
ScrollEvents == {k \in DOMAIN events : events[k].kind = "scroll"}

Disjoint(a, b) == a.end <= b.start \/ b.end <= a.start

\* C2: two scrolling comments that were given the same track have display
\* intervals [timestamp, timestamp + D) that do not overlap, unless one of
\* them was given its track by the overflow path (no track was free).
C2_NoOverlapOnTrack ==
    \A k \in ScrollEvents : \A l \in ScrollEvents :
        (k < l /\ events[k].track = events[l].track
               /\ events[k].free /\ events[l].free)
            => Disjoint(events[k], events[l])

(***************************************************************************)
(* Claims about the topic segmenter, checked under SpecSemantic and        *)
(* SpecExcite.                                                             *)
(***************************************************************************)
SemanticDone == semantic_result.status = "done"

\* a transcript as the data model wants it: start <= end in every entry and
\* an entry starts no earlier than the entry in front of it ends
OrderedTranscript ==
    /\ \A i \in DOMAIN subtitles : subtitles[i].start <= subtitles[i].end
    /\ \A i \in 1..(Len(subtitles) - 1) : subtitles[i].end <= subtitles[i + 1].start

\* C3 as stated (here only for transcripts in time order): the segments form
\* a total partition of the transcript's time range: in order of start, each
\* segment ends where the next one starts, no two [start, end) ranges
\* overlap, the first starts at the first entry's start and the last ends at
\* the last entry's end.
C3_TotalPartition ==
    (SemanticDone /\ subtitles # <<>> /\ OrderedTranscript) =>
        LET segs == semantic_result.segments
        IN  /\ segs # <<>>
            /\ \A k \in 1..(Len(segs) - 1) :
                  /\ segs[k].start <= segs[k + 1].start
                  /\ segs[k].end = segs[k + 1].start
            /\ \A k \in DOMAIN segs : \A l \in DOMAIN segs :
                  k < l => (segs[k].end <= segs[l].start \/ segs[l].end <= segs[k].start)
            /\ segs[1].start = subtitles[1].start
            /\ segs[Len(segs)].end = subtitles[Len(subtitles)].end

\* the segments from the k-th on are consecutive runs of the entries from the
\* f-th on: the k-th starts with entry f, and either it is the last and ends
\* with the last entry, or the next run starts at some later entry g
RECURSIVE RunsFrom(_, _, _, _)
RunsFrom(segs, entries, k, f) ==
    /\ segs[k].start = entries[f].start
    /\ IF k = Len(segs)
       THEN segs[k].end = entries[Len(entries)].end
       ELSE \E g \in (f + 1)..Len(entries) :
               /\ segs[k].end = entries[g - 1].end
               /\ RunsFrom(segs, entries, k + 1, g)

\* C3 amended: the segments, in order, are consecutive runs of transcript
\* entries that together hold every entry once; a segment starts at the start
\* of the first entry of its run and ends at the end of the last entry of its
\* run, so the first segment starts at the first entry's start and the last
\* one ends at the last entry's end (the time between the end of a run and
\* the start of the next entry belongs to no segment).
C3_EntryRuns ==
    (SemanticDone /\ subtitles # <<>>) =>
        LET segs == semantic_result.segments
            n == Len(subtitles)
        IN  /\ segs # <<>>
            /\ Len(segs) <= n
            /\ RunsFrom(segs, subtitles, 1, 1)
            /\ segs[1].start = subtitles[1].start
            /\ segs[Len(segs)].end = subtitles[n].end

\* a segment of two entries is followed, after a gap, by another segment
C3_Witness ==
    /\ SemanticDone
    /\ Len(subtitles) = 3
    /\ Len(semantic_result.segments) = 2
    /\ semantic_result.segments[1].start = subtitles[1].start
    /\ semantic_result.segments[1].end = subtitles[2].end
    /\ subtitles[1].end # subtitles[2].end
    /\ semantic_result.segments[1].end < semantic_result.segments[2].start

\* C8: calculate_excitement returns a value in 1..5 that follows the table
\* h >= 5 -> 5, h >= 3 -> 4, h >= 2 -> 3, h >= 1 -> 2, otherwise 1 of the
\* number h of emotion keywords found, so that of two calls the one with
\* more hits never returns less.
C8_ExcitementTable ==
    excite_result.status = "done" =>
        /\ excite_result.score \in 1..5
        /\ excite_result.score =
              CASE excite_result.hits >= 5 -> 5
                [] excite_result.hits \in 3..4 -> 4
                [] excite_result.hits = 2 -> 3
                [] excite_result.hits = 1 -> 2
                [] OTHER -> 1
        /\ excite_prev.status = "done" =>
              /\ excite_prev.hits <= excite_result.hits
                    => excite_prev.score <= excite_result.score
              /\ excite_prev.hits >= excite_result.hits
                    => excite_prev.score >= excite_result.score

\* a fifth hit raises the score from 4 to 5
C8_Witness ==
    /\ excite_result.status = "done"
    /\ excite_prev.status = "done"
    /\ excite_prev.hits = 4
    /\ excite_prev.score = 4
    /\ excite_result.hits = 5
    /\ excite_result.score = 5

(***************************************************************************)
(* Claims about the two parsers and about missing files, checked under     *)
(* SpecAnalyze.                                                            *)
(***************************************************************************)
WellFormedElem(d) == d.nfields >= 8 /\ d.time_ok /\ d.mode_ok

WellFormedBlock(b) == b.nlines >= 3 /\ b.index_ok /\ b.time_ok

\* C9: in a file with a single malformed record, that record is skipped and
\* every well-formed record in front of it and behind it is in the parsed
\* sequence, for the comment file and for the subtitle file.
C9_MalformedSkipped ==
    /\ (/\ danmaku_analysis # NoResult
        /\ danmaku_file.exists
        /\ Cardinality({i \in DOMAIN danmaku_file.elems :
                            ~WellFormedElem(danmaku_file.elems[i])}) = 1)
          => /\ Len(danmaku_parsed) = Len(danmaku_file.elems) - 1
             /\ \A i \in DOMAIN danmaku_file.elems :
                   WellFormedElem(danmaku_file.elems[i]) =>
                       \E j \in DOMAIN danmaku_parsed :
                           /\ danmaku_parsed[j].time = danmaku_file.elems[i].time
                           /\ danmaku_parsed[j].user = danmaku_file.elems[i].user
    /\ (/\ semantic_result # NoResult
        /\ srt_file.exists
        /\ Cardinality({i \in DOMAIN srt_file.blocks :
                            ~WellFormedBlock(srt_file.blocks[i])}) = 1)
          => /\ Len(subtitles) = Len(srt_file.blocks) - 1
             /\ \A i \in DOMAIN srt_file.blocks :
                   WellFormedBlock(srt_file.blocks[i]) =>
                       \E j \in DOMAIN subtitles :
                           /\ subtitles[j].start = srt_file.blocks[i].start
                           /\ subtitles[j].end = srt_file.blocks[i].end
                           /\ subtitles[j].text = srt_file.blocks[i].text

\* C10: when the comment file or the subtitle file is missing, the analysis
\* that needs it ends in an error and returns no result.
C10_MissingFileFails ==
    /\ (danmaku_analysis # NoResult /\ ~danmaku_file.exists)
          => danmaku_analysis.status = "error"
    /\ (semantic_result # NoResult /\ ~srt_file.exists)
          => semantic_result.status = "error"

(***************************************************************************)
(* Claims about the reconciler, checked under SpecClip.                    *)
(***************************************************************************)
ClipDone == recommendations # NoResult /\ recommendations.status = "done"

\* C1: no two distinct recommendations of the returned list overlap in time
\* by more than 30 seconds: min(endA, endB) - max(startA, startB) <= 30.
C1_KeptApart ==
    ClipDone =>
        \A i, j \in DOMAIN recommendations.returned :
            i # j =>
                Min(recommendations.returned[i].end, recommendations.returned[j].end)
                  - Max(recommendations.returned[i].start, recommendations.returned[j].start)
                    <= 30

\* Two recommendations that overlap by exactly 30 seconds are both returned,
\* and a ranked candidate was dropped for overlapping a kept one by more.
C1_Witness ==
    /\ ClipDone
    /\ \E i, j \in DOMAIN recommendations.returned :
          /\ i # j
          /\ Min(recommendations.returned[i].end, recommendations.returned[j].end)
               - Max(recommendations.returned[i].start, recommendations.returned[j].start)
                 = 30
    /\ \E k \in DOMAIN recommendations.ranked :
          /\ recommendations.ranked[k] \notin Range(recommendations.returned)
          /\ \E i \in DOMAIN recommendations.returned :
                Min(recommendations.ranked[k].end, recommendations.returned[i].end)
                  - Max(recommendations.ranked[k].start, recommendations.returned[i].start)
                    > 30

(***************************************************************************)
(* Claims about the engine as a whole, checked under SpecPipeline.         *)
(***************************************************************************)
\* C11: a comment file and a subtitle file that exist and hold no record
\* never end in an error: the density analysis returns no peak and average
\* 0, the segmentation no segment and no highlight, and the clipper run on
\* the files the two analyses wrote returns an empty list.
C11_EmptyInputNoError ==
    (/\ danmaku_file.exists /\ danmaku_file.elems = <<>>
     /\ srt_file.exists /\ srt_file.blocks = <<>>)
      => /\ danmaku_analysis # NoResult
            => /\ danmaku_analysis.status = "done"
               /\ danmaku_analysis.peak_moments = <<>>
               /\ danmaku_analysis.avg_density.num = 0
         /\ semantic_result # NoResult
            => /\ semantic_result.status = "done"
               /\ semantic_result.segments = <<>>
               /\ semantic_result.highlights = <<>>
         /\ recommendations # NoResult
            => /\ recommendations.status = "done"
               /\ recommendations.returned = <<>>

C13_EntriesInTimeOrder ==
    semantic_result # NoResult =>
        \A i \in DOMAIN subtitles :
            /\ subtitles[i].start <= subtitles[i].end
            /\ i > 1 => subtitles[i - 1].start <= subtitles[i].start

(***************************************************************************)
(* Claims about scoring and merging, checked under SpecClip.               *)
(***************************************************************************)
\* C14: the semantic factor of a candidate whose semantic source is a
\* highlight of excitement score e is e * 20, plus 10 (capped at 100) when
\* the highlight has a quote; it is 0 for a candidate with no semantic
\* source.
C14_SemanticFactor ==
    ClipDone =>
        \A k \in DOMAIN recommendations.merged :
            LET hl == recommendations.merged[k].semantic
                factor == recommendations.scored[k].score_breakdown.semantic
            IN  IF hl = None THEN factor = 0
                ELSE factor = Min(100, hl.score * 20
                                         + IF hl.key_quotes # <<>> THEN 10 ELSE 0)

\* C15: at most top_n recommendations are returned, in non-increasing order
\* of score, and every scored candidate the filtering loop dropped overlaps
\* by more than 30 seconds a candidate the loop kept whose score is at least
\* its own.
C15_RankedGreedy ==
    ClipDone =>
        /\ Len(recommendations.returned) <= top_n
        /\ \A i, j \in DOMAIN recommendations.returned :
              i < j => recommendations.returned[i].score >= recommendations.returned[j].score
        /\ \A k \in DOMAIN recommendations.scored :
              recommendations.scored[k] \notin Range(recommendations.filtered) =>
                  \E i \in DOMAIN recommendations.filtered :
                      /\ Min(recommendations.scored[k].end, recommendations.filtered[i].end)
                           - Max(recommendations.scored[k].start, recommendations.filtered[i].start)
                             > 30
                      /\ recommendations.filtered[i].score >= recommendations.scored[k].score

\* A candidate was dropped, the kept ones differ in score, and more were kept
\* than top_n allows to return.
C15_Witness ==
    /\ ClipDone
    /\ \E k \in DOMAIN recommendations.scored :
          recommendations.scored[k] \notin Range(recommendations.filtered)
    /\ Len(recommendations.filtered) > top_n
    /\ Len(recommendations.returned) = top_n
    /\ \E i, j \in DOMAIN recommendations.returned :
          recommendations.returned[i].score > recommendations.returned[j].score

\* C16: step 1 of merge_moments makes a candidate of a peak and a highlight
\* exactly when max(0, min(ends) - max(starts)) > 10; the candidate starts
\* at min(starts) and ends at min(max(ends), start + 180), so it spans at
\* most 180 seconds and keeps its start.
C16_MergedPairs ==
    ClipDone =>
        LET peaks == danmaku_json.json.peak_moments
            hls == semantic_json.json.highlights
            direct == recommendations.direct
            close == {ph \in (DOMAIN peaks) \X (DOMAIN hls) :
                         Max(0, Min(peaks[ph[1]].end, hls[ph[2]].end)
                                  - Max(peaks[ph[1]].start, hls[ph[2]].start)) > 10}
        IN  /\ Len(direct) = Cardinality(close)
            /\ \A ph \in (DOMAIN peaks) \X (DOMAIN hls) :
                  ph \in close <=>
                      \E k \in DOMAIN direct : /\ direct[k].danmaku = peaks[ph[1]]
                                               /\ direct[k].semantic = hls[ph[2]]
            /\ \A k \in DOMAIN direct :
                  /\ direct[k].start = Min(direct[k].danmaku.start, direct[k].semantic.start)
                  /\ direct[k].end = Min(Max(direct[k].danmaku.end, direct[k].semantic.end),
                                         direct[k].start + 180)
                  /\ direct[k].end - direct[k].start <= 180

\* A peak and a highlight that overlap by exactly 10 seconds are not merged,
\* and a merged candidate was cut to 180 seconds.
C16_Witness ==
    /\ ClipDone
    /\ \E p \in DOMAIN danmaku_json.json.peak_moments :
       \E h \in DOMAIN semantic_json.json.highlights :
          /\ Min(danmaku_json.json.peak_moments[p].end, semantic_json.json.highlights[h].end)
               - Max(danmaku_json.json.peak_moments[p].start,
                     semantic_json.json.highlights[h].start) = 10
          /\ \A k \in DOMAIN recommendations.direct :
                \/ recommendations.direct[k].danmaku # danmaku_json.json.peak_moments[p]
                \/ recommendations.direct[k].semantic # semantic_json.json.highlights[h]
    /\ \E k \in DOMAIN recommendations.direct :
          /\ recommendations.direct[k].end = recommendations.direct[k].start + 180
          /\ recommendations.direct[k].end < recommendations.direct[k].semantic.end

\* C17: when step 1 of merge_moments made fewer than 5 candidates, each of
\* the first 5 peaks and each of the first 5 highlights that is the source
\* of none of them is added as a candidate of its own over its own start
\* and end, and nothing else is added; when step 1 made 5 or more, no
\* single-source candidate is added.
C17_SingleSource ==
    ClipDone =>
        LET peaks == danmaku_json.json.peak_moments
            hls == semantic_json.json.highlights
            direct == recommendations.direct
            added == recommendations.added
            lonePeaks == {p \in 1..Min(5, Len(peaks)) :
                             \A k \in DOMAIN direct : direct[k].danmaku # peaks[p]}
            loneHls == {h \in 1..Min(5, Len(hls)) :
                           \A k \in DOMAIN direct : direct[k].semantic # hls[h]}
        IN  IF Len(direct) < 5
            THEN /\ SubSeq(added, 1, Len(direct)) = direct
                 /\ \A k \in (Len(direct) + 1)..Len(added) :
                       /\ added[k].overlap = 0
                       /\ \/ /\ added[k].semantic = None
                             /\ \E p \in lonePeaks : added[k].danmaku = peaks[p]
                          \/ /\ added[k].danmaku = None
                             /\ \E h \in loneHls : added[k].semantic = hls[h]
                       /\ \A j \in (Len(direct) + 1)..(k - 1) : added[j] # added[k]
                 /\ \A p \in lonePeaks :
                       \E k \in (Len(direct) + 1)..Len(added) :
                           /\ added[k].danmaku = peaks[p] /\ added[k].semantic = None
                           /\ added[k].start = peaks[p].start /\ added[k].end = peaks[p].end
                 /\ \A h \in loneHls :
                       \E k \in (Len(direct) + 1)..Len(added) :
                           /\ added[k].semantic = hls[h] /\ added[k].danmaku = None
                           /\ added[k].start = hls[h].start /\ added[k].end = hls[h].end
            ELSE added = direct

\* Step 1 made two candidates; of six peaks the third, fourth and fifth were
\* added on their own and the sixth was not.
C17_Witness ==
    /\ ClipDone
    /\ Len(danmaku_json.json.peak_moments) = 6
    /\ Len(recommendations.direct) = 2
    /\ \A p \in 3..5 :
          \E k \in DOMAIN recommendations.added :
              /\ recommendations.added[k].danmaku = danmaku_json.json.peak_moments[p]
              /\ recommendations.added[k].semantic = None
    /\ \A k \in DOMAIN recommendations.added :
          recommendations.added[k].danmaku # danmaku_json.json.peak_moments[6]

\* C18: detect_topic_changes returns a strictly ascending list of indices
\* that starts with 0, and an index i >= 1 is in it exactly when the
\* lower-cased text of entry i holds a transition marker or entry i starts
\* more than 2 seconds after entry i-1 ends; an index for which both hold is
\* in the list once.
C18_ChangePoints ==
    (SemanticDone /\ subtitles # <<>>) =>
        LET cp == semantic_result.change_points
            n == Len(subtitles)
        IN  /\ cp # <<>> /\ cp[1] = 0
            /\ \A k \in 1..(Len(cp) - 1) : cp[k] < cp[k + 1]
            /\ \A k \in DOMAIN cp : cp[k] \in 0..(n - 1)
            /\ \A i \in 1..(n - 1) :
                  (\E k \in DOMAIN cp : cp[k] = i)
                      <=> \/ \E marker \in TOPIC_TRANSITIONS :
                                IsSubstr(marker, Lower(subtitles[i + 1].text))
                          \/ subtitles[i + 1].start - subtitles[i].end > 2
            /\ \A i \in 1..(n - 1) : Cardinality({k \in DOMAIN cp : cp[k] = i}) <= 1

\* of three entries the second holds no marker and starts exactly 2 seconds
\* after the first ends, the third holds a marker and starts 3 seconds after
\* the second ends: the change points are 0 and 2
C18_Witness ==
    /\ SemanticDone
    /\ Len(subtitles) = 3
    /\ ~ \E marker \in TOPIC_TRANSITIONS : IsSubstr(marker, Lower(subtitles[2].text))
    /\ subtitles[2].start - subtitles[1].end = 2
    /\ \E marker \in TOPIC_TRANSITIONS : IsSubstr(marker, Lower(subtitles[3].text))
    /\ subtitles[3].start - subtitles[2].end > 2
    /\ semantic_result.change_points = <<0, 2>>

\* C19: for a transcript that is not empty the segmenter emits one segment
\* for each change point, in the order of the change points; segment k is
\* made of the entries from change point k up to, not including, change
\* point k+1, the last one of the entries up to the end of the transcript;
\* no segment is empty and every entry is in exactly one segment.
C19_SegmentPerChangePoint ==
    (SemanticDone /\ subtitles # <<>>) =>
        LET cp == semantic_result.change_points
            segs == semantic_result.segments
            n == Len(subtitles)
            lo(k) == cp[k] + 1
            hi(k) == IF k < Len(cp) THEN cp[k + 1] ELSE n
        IN  /\ Len(segs) = Len(cp)
            /\ \A k \in DOMAIN cp :
                  /\ lo(k) <= hi(k)
                  /\ segs[k].start = subtitles[lo(k)].start
                  /\ segs[k].end = subtitles[hi(k)].end
                  /\ segs[k].text =
                        JoinSpace([j \in 1..(hi(k) - lo(k) + 1) |-> subtitles[lo(k) + j - 1].text])
            /\ \A i \in 1..n :
                  Cardinality({k \in DOMAIN cp : lo(k) <= i /\ i <= hi(k)}) = 1

\* three entries with three different texts and change points 0 and 1: the
\* first segment is the first entry, the second runs from the second entry
\* to the end of the transcript
C19_Witness ==
    /\ SemanticDone
    /\ Len(subtitles) = 3
    /\ Cardinality({subtitles[i].text : i \in 1..3}) = 3
    /\ semantic_result.change_points = <<0, 1>>
    /\ Len(semantic_result.segments) = 2
    /\ semantic_result.segments[1].text = subtitles[1].text
    /\ semantic_result.segments[2].text = JoinSpace(<<subtitles[2].text, subtitles[3].text>>)
    /\ semantic_result.segments[2].end = subtitles[3].end
    /\ subtitles[2].end # subtitles[3].end

\* C20: all lanes start with busyUntil = 0, and a step that handles a
\* scrolling comment at time t while some lane has busyUntil <= t gives the
\* comment the lowest-numbered such lane, sets that lane's busyUntil to
\* t + D and leaves the busyUntil of every other lane as it was.
C20_FirstFit ==
    /\ \A i \in DOMAIN tracks : tracks[i] = 0
    /\ [][LET d == xml[xml_pos]
              open == {i \in 0..(NumTracks - 1) : tracks[i] <= d.time}
          IN  (/\ xml_pos' = xml_pos + 1
               /\ d.nfields >= 8 /\ d.text # <<>> /\ d.mode = 1
               /\ open # {})
                  => /\ Len(events') = Len(events) + 1
                     /\ events'[Len(events')].track \in open
                     /\ \A i \in open : events'[Len(events')].track <= i
                     /\ tracks'[events'[Len(events')].track] = d.time + Duration
                     /\ \A i \in 0..(NumTracks - 1) :
                           i # events'[Len(events')].track => tracks'[i] = tracks[i]]_vars

\* two comments at time 0 took lanes 0 and 1; a later comment, with lanes 2
\* and up never used, took lane 0 again as soon as it was free
C20_Witness ==
    \E k \in ScrollEvents : \E l \in ScrollEvents :
        /\ k < l
        /\ events[k].track = 1 /\ events[k].free
        /\ events[l].track = 0 /\ events[l].free
        /\ events[l].start > events[k].start
        /\ tracks[0] = events[l].start + Duration
        /\ tracks[1] = events[k].start + Duration
        /\ tracks[2] = 0

\* the lane the k-th event was given was busy until this time before it: the
\* end of the latest earlier scrolling event on lane i, 0 when there is none
RECURSIVE BusyScan(_, _)
BusyScan(j, i) ==
    IF j = 0 THEN 0
    ELSE IF events[j].kind = "scroll" /\ events[j].track = i THEN events[j].end
    ELSE BusyScan(j - 1, i)

BusyBefore(k, i) == BusyScan(k - 1, i)

ScrollElems(handled) == SelectSeq(handled, LAMBDA d : d.mode = 1 /\ d.text # <<>>)

C22_AscendingMonotone ==
    /\ [](LET scrolls == ScrollElems(SubSeq(xml, 1, xml_pos - 1))
          IN  \A k \in 1..(Len(scrolls) - 1) : scrolls[k].time <= scrolls[k + 1].time)
    /\ [][\A i \in 0..(NumTracks - 1) : tracks'[i] >= tracks[i]]_vars

\* the handled scrolling comments came in ascending order of time, and at the
\* time of each fewer than K earlier ones were still displayed
InOrderWithRoom(scrolls) ==
    /\ \A k \in 1..(Len(scrolls) - 1) : scrolls[k].time <= scrolls[k + 1].time
    /\ \A k \in DOMAIN scrolls :
          Cardinality({j \in 1..(k - 1) : scrolls[j].time + Duration > scrolls[k].time})
              < NumTracks

\* C23: when the scrolling comments are handled in ascending order of time
\* and at the time of each fewer than K earlier scrolling comments are still
\* displayed, no comment takes the overflow path, the number of busy lanes
\* is the number of comments still displayed, and no two comments on one
\* lane overlap.
C23_NoOverflowWithRoom ==
    LET scrolls == ScrollElems(SubSeq(xml, 1, xml_pos - 1))
        now == scrolls[Len(scrolls)].time
    IN  (scrolls # <<>> /\ InOrderWithRoom(scrolls)) =>
            /\ \A k \in ScrollEvents : events[k].free
            /\ Cardinality({i \in 0..(NumTracks - 1) : tracks[i] > now})
                  = Cardinality({k \in DOMAIN scrolls : scrolls[k].time + Duration > now})
            /\ \A k \in ScrollEvents : \A l \in ScrollEvents :
                  (k < l /\ events[k].track = events[l].track)
                      => events[k].end <= events[l].start

\* fifteen comments at one time fill the fifteen lanes, and a later comment,
\* handled when they are no longer displayed, takes lane 0 again
C23_Witness ==
    LET scrolls == ScrollElems(SubSeq(xml, 1, xml_pos - 1))
    IN  /\ Len(scrolls) = NumTracks + 1
        /\ InOrderWithRoom(scrolls)
        /\ Cardinality(ScrollEvents) = NumTracks + 1
        /\ {events[k].track : k \in ScrollEvents} = 0..(NumTracks - 1)
        /\ \E k \in ScrollEvents : \E l \in ScrollEvents :
              k < l /\ events[k].track = 0 /\ events[l].track = 0
        /\ Cardinality({i \in 0..(NumTracks - 1) : tracks[i] > scrolls[Len(scrolls)].time}) = 1

\* C24: the density factor of every candidate is 100, 80, 60, 40 or 20 as the
\* count of its peak window is at least 150, 100, 80, 50 or less, and it is 0
\* for a candidate without a density source.
C24_DensityFactor ==
    ClipDone =>
        \A k \in DOMAIN recommendations.scored :
            LET source == recommendations.merged[k].danmaku
                factor == recommendations.scored[k].score_breakdown.danmaku
            IN  IF source = None THEN factor = 0
                ELSE factor = (IF source.density >= 150 THEN 100
                               ELSE IF source.density >= 100 THEN 80
                               ELSE IF source.density >= 80 THEN 60
                               ELSE IF source.density >= 50 THEN 40
                               ELSE 20)

\* C25: score_duration_fit is 100 when the duration lies within the
\* configured [min, max], which is [60, 300] when nothing is configured;
\* below the minimum it is max(0, 100 - 2 * (min - duration)), above the
\* maximum max(0, 100 - 0.5 * (duration - max)); it always lies in 0..100.
\* (The factor is kept in half points.)
C25_DurationFit ==
    ClipDone =>
        \A k \in DOMAIN recommendations.scored :
            LET duration == recommendations.scored[k].duration
                factor2 == recommendations.scored[k].score_breakdown.duration
                config == IF template = None \/ ~("clip_config" \in DOMAIN template)
                          THEN <<>> ELSE template.clip_config
                lo == IF "min_duration" \in DOMAIN config THEN config.min_duration ELSE 60
                hi == IF "max_duration" \in DOMAIN config THEN config.max_duration ELSE 300
            IN  /\ factor2 \in 0..200
                /\ factor2 = (IF lo <= duration /\ duration <= hi THEN 200
                              ELSE IF duration < lo
                              THEN Max(0, 200 - 4 * (lo - duration))
                              ELSE Max(0, 200 - (duration - hi)))

\* C26: the total score of every recommendation is the weighted sum
\* 0.30 * density + 0.40 * semantic + 0.20 * template + 0.10 * duration of
\* its four factors cut to an integer, and the total and the four factors
\* are integers in 0..100.  (The duration factor is kept in half points: it
\* is an integer when the number of half points is even.)
C26_WeightedTotal ==
    ClipDone =>
        \A k \in DOMAIN recommendations.scored :
            LET rec == recommendations.scored[k]
                b == rec.score_breakdown
            IN  /\ rec.score = (60 * b.danmaku + 80 * b.semantic + 40 * b.template
                                   + 10 * b.duration) \div 200
                /\ rec.score \in 0..100
                /\ b.danmaku \in 0..100
                /\ b.semantic \in 0..100
                /\ b.template \in 0..100
                /\ b.duration \in 0..200
                /\ b.duration % 2 = 0

\* the keywords of the segments the highlight hl was made of
SegmentKeywordsOf(hl) ==
    LET segs == semantic_json.json.segments
        same == {i \in DOMAIN segs : /\ segs[i].start = hl.start
                                     /\ segs[i].end = hl.end
                                     /\ segs[i].excitement_score = hl.score}
    IN  IF same = {} THEN <<>> ELSE segs[CHOOSE i \in same : TRUE].keywords

\* C27: the template factor of every candidate is min(100, 50 + 10 * n), n
\* being the number of distinct phrases of the preset that occur, case
\* ignored, in the candidate's collected keywords, which are the keywords of
\* its density peak together with those of its semantic segment; the factor
\* is 50 when there is no preset.
C27_TemplateFactor ==
    (ClipDone /\ "segments" \in DOMAIN semantic_json.json) =>
        \A k \in DOMAIN recommendations.scored :
            LET m == recommendations.merged[k]
                factor == recommendations.scored[k].score_breakdown.template
                collected ==
                    (IF m.danmaku = None THEN <<>> ELSE m.danmaku.keywords)
                        \o (IF m.semantic = None THEN <<>> ELSE SegmentKeywordsOf(m.semantic))
                phrases == IF template = None \/ ~("memes" \in DOMAIN template)
                           THEN {} ELSE Range(template.memes)
                found == {ph \in phrases : IsSubstr(Lower(ph), Lower(JoinSpace(collected)))}
            IN  IF template = None THEN factor = 50
                ELSE factor = Min(100, 50 + 10 * Cardinality(found))

SameSpan(a, b) == a.start = b.start /\ a.end = b.end

C29_Highlights ==
    (SemanticDone /\ subtitles # <<>>) =>
        LET hs == semantic_result.highlights
            segs == semantic_result.segments
            high == {k \in DOMAIN segs : segs[k].excitement_score >= 4}
            made(k) == [start |-> segs[k].start, end |-> segs[k].end,
                        score |-> segs[k].excitement_score,
                        key_quotes |-> SubSeq(segs[k].key_quotes, 1,
                                              Min(3, Len(segs[k].key_quotes)))]
        IN  /\ Len(hs) <= 10
            /\ \A i \in DOMAIN hs : hs[i].score >= 4 /\ \E k \in high : hs[i] = made(k)
            /\ \A i \in 1..(Len(hs) - 1) : hs[i].score >= hs[i + 1].score
            /\ Cardinality(high) < 10 =>
                  /\ Len(hs) = Cardinality(high)
                  /\ \A k \in high : \E i \in DOMAIN hs : hs[i] = made(k)

\* eleven segments score 4 or 5: the list holds ten of them, the five that
\* score 5 first, and leaves out the last segment that scores 4
C29_Witness ==
    /\ SemanticDone
    /\ Len(semantic_result.segments) = 11
    /\ \A k \in 1..11 : semantic_result.segments[k].excitement_score >= 4
    /\ semantic_result.segments[1].excitement_score = 4
    /\ Len(semantic_result.highlights) = 10
    /\ semantic_result.highlights[1].score = 5
    /\ semantic_result.highlights[1].start = semantic_result.segments[2].start
    /\ semantic_result.highlights[10].score = 4
    /\ \A i \in 1..10 :
          semantic_result.highlights[i].start # semantic_result.segments[11].start

\* C30: the title is made of the first quote of the semantic source when
\* that quote has at most 20 characters, and otherwise of the preset's name
\* and the top keyword; whatever the input, the title has at most 80
\* characters.
C30_Title ==
    ClipDone =>
        \A k \in DOMAIN recommendations.scored :
            LET rec == recommendations.scored[k]
                source == recommendations.merged[k].semantic
                quotes == IF source = None THEN <<>> ELSE source.key_quotes
                name == IF template = None \/ ~("name" \in DOMAIN template)
                        THEN <<"u4E3B", "u64AD">> ELSE template.name
                top == IF rec.keywords = <<>> THEN <<"u7CBE", "u5F69", "u65F6", "u523B">>
                       ELSE rec.keywords[1]
                lead == IF quotes # <<>> /\ Len(quotes[1]) <= 20
                        THEN <<"[">> \o name \o <<"]", " ">> \o quotes[1]
                        ELSE <<"[">> \o name \o <<"]">> \o top \o <<" ", "|", " ">>
                shown == Min(Len(lead), 77)
            IN  /\ Len(rec.title) <= 80
                /\ Len(rec.title) >= shown
                /\ SubSeq(rec.title, 1, shown) = SubSeq(lead, 1, shown)
                /\ (quotes # <<>> /\ Len(quotes[1]) <= 20 /\ Len(lead) <= 80)
                      => rec.title = lead

\* a quote of 20 characters under a name of 80: the title is cut to its
\* first 77 characters and three dots
C30_Witness ==
    /\ ClipDone
    /\ template # None /\ "name" \in DOMAIN template /\ Len(template.name) >= 80
    /\ \E k \in DOMAIN recommendations.scored :
          /\ recommendations.merged[k].semantic # None
          /\ recommendations.merged[k].semantic.key_quotes # <<>>
          /\ Len(recommendations.merged[k].semantic.key_quotes[1]) = 20
          /\ Len(recommendations.scored[k].title) = 80
          /\ SubSeq(recommendations.scored[k].title, 78, 80) = <<".", ".", ".">>

====
